---- MODULE Spec2Model ----
(***************************************************************************)
(* Scenario Execution Pipeline of the API agent: QAAgent.answer,            *)
(* APIExecutor.execute_scenario / _execute_api_call and                     *)
(* TemplateRenderer.render / render_api_response.                           *)
(*                                                                          *)
(* One answer request is followed from the call of the external matcher to  *)
(* the returned AgentResponse.  The steps between two awaits of the Python  *)
(* coroutine are one action each.                                           *)
(***************************************************************************)
EXTENDS Integers, Sequences, FiniteSets, TLC

\* Longest api_mappings list of a scenario the model draws.
MaxMappings == 2

\* Longest parameter_mappings list of the mappings handed to a single
\* _execute_api_call.
MaxParameterMappings == 2

\* QAAgent.answer compares match_result.confidence with 0.3; confidences are
\* kept in hundredths.
ConfidenceThreshold == 30

\* APIExecutor.__init__: timeout: float = 30.0 (shown as "30.0" in messages).
TimeoutText == "30.0"

(***************************************************************************)
(* Python values.  Every value is a record with one field naming its type,  *)
(* so that values of different types are comparable.                        *)
(***************************************************************************)
None == [none |-> TRUE]
StrV(s) == [str |-> s]
IntV(s) == [int |-> s]        \* the int whose decimal text is s
FloatV(s) == [float |-> s]    \* the float whose repr is s
BoolV(b) == [bool |-> b]

IsNone(v) == "none" \in DOMAIN v

\* str(value)
Str(v) ==
    IF "none" \in DOMAIN v THEN "None"
    ELSE IF "str" \in DOMAIN v THEN v.str
    ELSE IF "int" \in DOMAIN v THEN v.int
    ELSE IF "float" \in DOMAIN v THEN v.float
    ELSE IF v.bool THEN "True" ELSE "False"

\* The texts of the model and what str.lower / str.upper / str.strip /
\* int() / float() / strptime make of them.
Lower(s) == CASE s = "A1" -> "a1" [] s = "Hi" -> "hi" [] s = "None" -> "none"
              [] s = "True" -> "true" [] s = "False" -> "false"
              [] s = " Hi " -> " hi " [] s = "15 Jan" -> "15 jan" [] OTHER -> s
Upper(s) == CASE s = "a1" -> "A1" [] s = "Hi" -> "HI" [] s = "hi" -> "HI"
              [] s = "None" -> "NONE" [] s = "True" -> "TRUE"
              [] s = "False" -> "FALSE"
              [] s = " Hi " -> " HI " [] s = "15 Jan" -> "15 JAN" [] OTHER -> s
Strip(s) == CASE s = " Hi " -> "Hi" [] OTHER -> s
IsIntText(s) == s \in {"42", "7", "1", "10"}
FloatText(s) == CASE s = "42" -> "42.0" [] s = "7" -> "7.0" [] s = "1" -> "1.0"
                  [] s = "10" -> "10.0" [] OTHER -> s
IsFloatText(s) == s \in {"42", "7", "1", "10", "42.0", "7.0", "1.0", "10.0"}
\* int(x) of the float whose repr is s
IntText(s) == CASE s = "42.0" -> "42" [] s = "7.0" -> "7" [] s = "1.0" -> "1"
                [] s = "10.0" -> "10" [] OTHER -> s

DateTransform == "date_format:%Y-%m-%d:%d/%m/%Y"
ShortDateTransform == "date_format:%Y"         \* fewer than three parts
TimeTransform == "date_format:%H:%M:%H.%M"     \* four parts: "%H" and "%M" are taken
IsDateTransform(t) == t \in {DateTransform, ShortDateTransform, TimeTransform}
\* parts = transform.split(":")
DateParts(t) == CASE t = DateTransform -> << "date_format", "%Y-%m-%d", "%d/%m/%Y" >>
                  [] t = TimeTransform -> << "date_format", "%H", "%M", "%H.%M" >>
                  [] OTHER -> << "date_format", "%Y" >>
\* datetime.strptime(s, input_fmt) does not raise ValueError
ParsesAsDate(s, input_fmt) ==
    \/ input_fmt = "%Y-%m-%d" /\ s = "2024-01-15"
    \/ input_fmt = "%H" /\ s \in {"10", "7", "1"}
\* datetime.strptime(s, input_fmt).strftime(output_fmt)
Reformat(s, input_fmt, output_fmt) ==
    IF input_fmt = "%Y-%m-%d" THEN "15/01/2024" ELSE "00"

\* A call either returns a value or raises: [raised |-> FALSE, value |-> v]
\* or [raised |-> TRUE, exc |-> class of the exception, msg |-> its text].
Return(v) == [raised |-> FALSE, value |-> v]
Raise(exc, m) == [raised |-> TRUE, exc |-> exc, msg |-> m]

\* The exception classes of the model that derive from Exception.
IsException(exc) ==
    exc \in {"APIExecutionError", "ValueError", "TypeError", "RuntimeError",
             "TemplateSyntaxError", "UndefinedError", "ZeroDivisionError"}

\* DateFormat that returns the text of the value when it does not parse.
DateFormatAsText(value, parts) ==
    IF ParsesAsDate(Str(value), parts[2])
        THEN Return(StrV(Reformat(Str(value), parts[2], parts[3])))
    ELSE Return(StrV(Str(value)))

\* The date_format branch with at least three parts: strptime with parts[1],
\* strftime with parts[2]; ValueError gives the value back.
DateFormat(value, parts) ==
    IF ParsesAsDate(Str(value), parts[2])
        THEN Return(StrV(Reformat(Str(value), parts[2], parts[3])))
    ELSE Return(value)

_apply_transform(value, transform) ==
    IF transform = "lowercase" THEN Return(StrV(Lower(Str(value))))
    ELSE IF transform = "uppercase" THEN Return(StrV(Upper(Str(value))))
    ELSE IF transform = "trim" THEN Return(StrV(Strip(Str(value))))
    ELSE IF transform = "int" THEN
        IF "int" \in DOMAIN value THEN Return(value)
        ELSE IF "float" \in DOMAIN value THEN Return(IntV(IntText(value.float)))
        ELSE IF "bool" \in DOMAIN value
            THEN Return(IntV(IF value.bool THEN "1" ELSE "0"))
        ELSE IF "str" \in DOMAIN value /\ IsIntText(value.str)
            THEN Return(IntV(value.str))
        ELSE IF "str" \in DOMAIN value
            THEN Raise("ValueError", "invalid literal for int() with base 10: '" \o value.str \o "'")
        ELSE Raise("TypeError", "int() argument must be a string, a bytes-like object or a real number, not 'NoneType'")
    ELSE IF transform = "float" THEN
        IF "float" \in DOMAIN value THEN Return(value)
        ELSE IF "int" \in DOMAIN value THEN Return(FloatV(FloatText(value.int)))
        ELSE IF "bool" \in DOMAIN value
            THEN Return(FloatV(IF value.bool THEN "1.0" ELSE "0.0"))
        ELSE IF "str" \in DOMAIN value /\ IsFloatText(value.str)
            THEN Return(FloatV(FloatText(value.str)))
        ELSE IF "str" \in DOMAIN value
            THEN Raise("ValueError", "could not convert string to float: '" \o value.str \o "'")
        ELSE Raise("TypeError", "float() argument must be a string or a real number, not 'NoneType'")
    ELSE IF transform = "bool"
        THEN Return(BoolV(Lower(Str(value)) \in {"true", "1", "yes"}))
    ELSE IF IsDateTransform(transform) /\ Len(DateParts(transform)) >= 3
        THEN DateFormat(value, DateParts(transform))
    ELSE Return(value)


(***************************************************************************)
(* dict helpers: a dict is a function from its keys.                        *)
(***************************************************************************)
EmptyDict == [k \in {} |-> None]
Put(d, k, v) == [x \in (DOMAIN d) \cup {k} |-> IF x = k THEN v ELSE d[x]]
Get(d, k, default) == IF k \in DOMAIN d THEN d[k] ELSE default

(***************************************************************************)
(* The agent's configuration: the API spec and the auth context.            *)
(* A path is its text; Segments gives the literal and placeholder parts.    *)
(***************************************************************************)
Lit(t) == [lit |-> t]
Ph(n) == [ph |-> n]
IsPh(seg, name) == "ph" \in DOMAIN seg /\ seg.ph = name

Segments(path) ==
    CASE path = "/users/{id}" -> << Lit("users"), Ph("id") >>
      [] path = "/orders" -> << Lit("orders") >>
      [] path = "/search" -> << Lit("search") >>
      [] path = "/users/{id}/items/{sku}" ->
            << Lit("users"), Ph("id"), Lit("items"), Ph("sku") >>
      [] OTHER -> << Lit(path) >>

Param(n, loc) == [name |-> n, location |-> loc]

ApiSpec ==
    [base_url |-> "http://api",
     endpoints |-> <<
        [path |-> "/users/{id}", method |-> "GET",
         parameters |-> << Param("id", "path"), Param("q", "query"),
                           Param("X-Trace", "header") >>,
         has_request_body |-> FALSE, properties |-> {}],
        [path |-> "/orders", method |-> "POST",
         parameters |-> << Param("Authorization", "header") >>,
         has_request_body |-> TRUE, properties |-> {"note", "qty"}] >>]

\* auth_config of the agent serving answer requests.
AuthConfig == [type |-> "bearer", token |-> "tok"]

\* The shapes of auth_config (the empty dict: no authentication).
AuthConfigs ==
    { EmptyDict,
      [type |-> "bearer", token |-> "tok"],
      [type |-> "basic", username |-> "user", password |-> "pw"],
      [type |-> "api_key", key_name |-> "X-API-Key", key_value |-> "k1",
       key_location |-> "header"],
      [type |-> "api_key", key_name |-> "api_key", key_value |-> "k1",
       key_location |-> "query"] }

NoEndpoint == [none |-> TRUE]
Found(endpoint) == "none" \notin DOMAIN endpoint

RECURSIVE FindFrom(_, _, _)
FindFrom(k, path, method) ==
    IF k > Len(ApiSpec.endpoints) THEN NoEndpoint
    ELSE IF ApiSpec.endpoints[k].path = path /\ ApiSpec.endpoints[k].method = method
        THEN ApiSpec.endpoints[k]
    ELSE FindFrom(k + 1, path, method)

_find_endpoint(path, method) == FindFrom(1, path, method)

\* entity_map = {e.name: e.value for e in extracted_entities}
RECURSIVE EntityMapFrom(_, _, _)
EntityMapFrom(entities, k, acc) ==
    IF k > Len(entities) THEN acc
    ELSE EntityMapFrom(entities, k + 1, Put(acc, entities[k].name, entities[k].value))

EntityMap(entities) == EntityMapFrom(entities, 1, EmptyDict)

(***************************************************************************)
(* Request construction.  Each builder returns Return(..) or Raise(..):     *)
(* a transform may raise, and the fault leaves _execute_api_call.           *)
(***************************************************************************)
HasPlaceholder(segs, name) == \E i \in DOMAIN segs : IsPh(segs[i], name)
ReplacePlaceholder(segs, name, text) ==
    [i \in DOMAIN segs |-> IF IsPh(segs[i], name) THEN Lit(text) ELSE segs[i]]

\* UrlMapped that leaves the placeholder of a null entity in the path.
RECURSIVE UrlMappedSkipsNull(_, _, _, _)
UrlMappedSkipsNull(segs, pms, k, entity_map) ==
    IF k > Len(pms) THEN Return(segs)
    ELSE IF ~HasPlaceholder(segs, pms[k].api_parameter)
            \/ IsNone(Get(entity_map, pms[k].entity_name, StrV("")))
        THEN UrlMappedSkipsNull(segs, pms, k + 1, entity_map)
    ELSE LET got == Get(entity_map, pms[k].entity_name, StrV(""))
             tr == IF pms[k].transform # "" THEN _apply_transform(got, pms[k].transform)
                   ELSE Return(got)
         IN IF tr.raised THEN tr
            ELSE UrlMappedSkipsNull(
                    ReplacePlaceholder(segs, pms[k].api_parameter, Str(tr.value)),
                    pms, k + 1, entity_map)

RECURSIVE UrlMapped(_, _, _, _)
UrlMapped(segs, pms, k, entity_map) ==
    IF k > Len(pms) THEN Return(segs)
    ELSE IF ~HasPlaceholder(segs, pms[k].api_parameter)
        THEN UrlMapped(segs, pms, k + 1, entity_map)
    ELSE LET got == Get(entity_map, pms[k].entity_name, StrV(""))
             tr == IF pms[k].transform # "" THEN _apply_transform(got, pms[k].transform)
                   ELSE Return(got)
         IN IF tr.raised THEN tr
            ELSE UrlMapped(ReplacePlaceholder(segs, pms[k].api_parameter, Str(tr.value)),
                           pms, k + 1, entity_map)

RECURSIVE UrlStatic(_, _, _)
UrlStatic(segs, statics, k) ==
    IF k > Len(statics) THEN segs
    ELSE IF HasPlaceholder(segs, statics[k].param)
        THEN UrlStatic(ReplacePlaceholder(segs, statics[k].param, Str(statics[k].value)),
                       statics, k + 1)
    ELSE UrlStatic(segs, statics, k + 1)

\* _build_url with the two loops in the other order: static parameters first.
_build_urlStaticFirst(path, api_mapping, entity_map) ==
    LET mapped == UrlMapped(UrlStatic(Segments(path), api_mapping.static_params, 1),
                            api_mapping.parameter_mappings, 1, entity_map)
    IN IF mapped.raised THEN mapped
       ELSE Return([base |-> ApiSpec.base_url, path |-> mapped.value])

_build_url(path, api_mapping, entity_map) ==
    LET mapped == UrlMapped(Segments(path), api_mapping.parameter_mappings, 1, entity_map)
    IN IF mapped.raised THEN mapped
       ELSE Return([base |-> ApiSpec.base_url,
                    path |-> UrlStatic(mapped.value, api_mapping.static_params, 1)])

ParamNames(endpoint, loc) ==
    {endpoint.parameters[i].name : i \in
        {j \in DOMAIN endpoint.parameters : endpoint.parameters[j].location = loc}}

\* The loop over parameter_mappings shared by query and body construction:
\* a mapping whose target is in names and whose entity value is not None
\* contributes its (transformed) value.
RECURSIVE MappedInto(_, _, _, _, _)
MappedInto(params, names, pms, k, entity_map) ==
    IF k > Len(pms) THEN Return(params)
    ELSE IF pms[k].api_parameter \notin names
        THEN MappedInto(params, names, pms, k + 1, entity_map)
    ELSE LET got == Get(entity_map, pms[k].entity_name, None)
         IN IF IsNone(got) THEN MappedInto(params, names, pms, k + 1, entity_map)
            ELSE LET tr == IF pms[k].transform # ""
                              THEN _apply_transform(got, pms[k].transform)
                              ELSE Return(got)
                 IN IF tr.raised THEN tr
                    ELSE MappedInto(Put(params, pms[k].api_parameter, tr.value),
                                    names, pms, k + 1, entity_map)

\* "{" not in str(value): no static value of the model holds a brace.
HasBrace(text) == FALSE

RECURSIVE QueryStatic(_, _, _, _)
QueryStatic(params, endpoint, statics, k) ==
    IF k > Len(statics) THEN params
    ELSE IF HasBrace(Str(statics[k].value))
        THEN QueryStatic(params, endpoint, statics, k + 1)
    ELSE IF Found(endpoint) THEN
        IF statics[k].param \in ParamNames(endpoint, "query")
            THEN QueryStatic(Put(params, statics[k].param, statics[k].value),
                             endpoint, statics, k + 1)
        ELSE QueryStatic(params, endpoint, statics, k + 1)
    ELSE QueryStatic(Put(params, statics[k].param, statics[k].value),
                     endpoint, statics, k + 1)

_build_query_params(endpoint, api_mapping, entity_map) ==
    LET mapped == IF Found(endpoint)
                     THEN MappedInto(EmptyDict, ParamNames(endpoint, "query"),
                                     api_mapping.parameter_mappings, 1, entity_map)
                     ELSE Return(EmptyDict)
    IN IF mapped.raised THEN mapped
       ELSE Return(QueryStatic(mapped.value, endpoint, api_mapping.static_params, 1))

Base64(text) == CASE text = "user:pw" -> "dXNlcjpwdw==" [] OTHER -> "b64(" \o text \o ")"

\* AuthHeaders that puts an API key into the headers whatever its location.
AuthHeadersAnyLocation(headers, auth) ==
    IF "type" \notin DOMAIN auth THEN headers
    ELSE IF auth.type = "bearer"
        THEN Put(headers, "Authorization", "Bearer " \o auth.token)
    ELSE IF auth.type = "api_key" THEN Put(headers, auth.key_name, auth.key_value)
    ELSE IF auth.type = "basic"
        THEN Put(headers, "Authorization",
                 "Basic " \o Base64(auth.username \o ":" \o auth.password))
    ELSE headers

AuthHeaders(headers, auth) ==
    IF "type" \notin DOMAIN auth THEN headers
    ELSE IF auth.type = "bearer"
        THEN Put(headers, "Authorization", "Bearer " \o auth.token)
    ELSE IF auth.type = "api_key" THEN
        IF auth.key_location = "header" THEN Put(headers, auth.key_name, auth.key_value)
        ELSE headers
    ELSE IF auth.type = "basic"
        THEN Put(headers, "Authorization",
                 "Basic " \o Base64(auth.username \o ":" \o auth.password))
    ELSE headers

RECURSIVE HeaderMapped(_, _, _, _, _)
HeaderMapped(headers, names, pms, k, entity_map) ==
    IF k > Len(pms) THEN headers
    ELSE IF pms[k].api_parameter \in names
            /\ ~IsNone(Get(entity_map, pms[k].entity_name, None))
        THEN HeaderMapped(Put(headers, pms[k].api_parameter,
                              Str(Get(entity_map, pms[k].entity_name, None))),
                          names, pms, k + 1, entity_map)
    ELSE HeaderMapped(headers, names, pms, k + 1, entity_map)

\* _build_headers where the authentication headers are set last.
_build_headersAuthLast(auth_config, endpoint, api_mapping, entity_map) ==
    LET base == [h \in {"Content-Type", "Accept"} |-> "application/json"]
    IN AuthHeaders(IF Found(endpoint)
                      THEN HeaderMapped(base, ParamNames(endpoint, "header"),
                                        api_mapping.parameter_mappings, 1, entity_map)
                      ELSE base,
                   auth_config)

\* auth_config is self.auth_config of the executor.
_build_headers(auth_config, endpoint, api_mapping, entity_map) ==
    LET base == [h \in {"Content-Type", "Accept"} |-> "application/json"]
        authed == AuthHeaders(base, auth_config)
    IN IF Found(endpoint)
          THEN HeaderMapped(authed, ParamNames(endpoint, "header"),
                            api_mapping.parameter_mappings, 1, entity_map)
          ELSE authed

RECURSIVE BodyStatic(_, _, _, _)
BodyStatic(body, properties, statics, k) ==
    IF k > Len(statics) THEN body
    ELSE IF statics[k].param \in properties
        THEN BodyStatic(Put(body, statics[k].param, statics[k].value),
                        properties, statics, k + 1)
    ELSE BodyStatic(body, properties, statics, k + 1)

\* The body is a dict; "no body" (None) is the empty dict with absent = TRUE.
NoBody == [absent |-> TRUE, fields |-> EmptyDict]
_build_body(endpoint, api_mapping, entity_map) ==
    IF api_mapping.method \in {"GET", "DELETE"} THEN Return(NoBody)
    ELSE IF ~Found(endpoint) \/ ~endpoint.has_request_body THEN Return(NoBody)
    ELSE LET mapped == MappedInto(EmptyDict, endpoint.properties,
                                  api_mapping.parameter_mappings, 1, entity_map)
         IN IF mapped.raised THEN mapped
            ELSE LET body == BodyStatic(mapped.value, endpoint.properties,
                                        api_mapping.static_params, 1)
                 IN IF DOMAIN body = {} THEN Return(NoBody)
                    ELSE Return([absent |-> FALSE, fields |-> body])

\* The request _execute_api_call hands to client.request, or the fault raised
\* while building it (find endpoint, url, query, headers, body, in this order).
BuildRequest(auth_config, api_mapping, entity_map) ==
    LET endpoint == _find_endpoint(api_mapping.endpoint_path, api_mapping.method)
        url == _build_url(api_mapping.endpoint_path, api_mapping, entity_map)
        query_params == _build_query_params(endpoint, api_mapping, entity_map)
        headers == _build_headers(auth_config, endpoint, api_mapping, entity_map)
        body == _build_body(endpoint, api_mapping, entity_map)
    IN IF url.raised THEN url
       ELSE IF query_params.raised THEN query_params
       ELSE IF body.raised THEN body
       ELSE Return([method |-> api_mapping.method, url |-> url.value,
                    params |-> query_params.value, headers |-> headers,
                    json |-> body.value])


(***************************************************************************)
(* ExecutionResult: the dicts execute_scenario appends.  A response body is *)
(* [dict |-> keys to values] or [list |-> items]; None is the null body.    *)
(***************************************************************************)
JsonDict(f) == [dict |-> f]
JsonList(items) == [list |-> items]

\* bool(data): None, {} and [] are falsy.
Truthy(data) ==
    IF "dict" \in DOMAIN data THEN DOMAIN data.dict # {}
    ELSE IF "list" \in DOMAIN data THEN Len(data.list) > 0
    ELSE FALSE

IsDict(data) == "dict" \in DOMAIN data

EndpointLabel(api_mapping) == api_mapping.method \o " " \o api_mapping.endpoint_path

SuccessResult(api_mapping, data) ==
    [endpoint |-> EndpointLabel(api_mapping), success |-> TRUE,
     data |-> data, error |-> None]

FailureResult(api_mapping, message) ==
    [endpoint |-> EndpointLabel(api_mapping), success |-> FALSE,
     data |-> None, error |-> StrV(message)]

(***************************************************************************)
(* What the HTTP client can do with a request that was sent.                *)
(***************************************************************************)
JsonBodies ==
    { JsonDict([k \in {"name"} |-> StrV("Laptop")]),
      JsonDict([k \in {"data", "result_1"} |-> StrV("own")]),
      JsonDict(EmptyDict),
      JsonList(<< StrV("a") >>) }

HttpOutcomes ==
    { [kind |-> "response", status |-> 200, is_json |-> TRUE, body |-> b, text |-> ""]
        : b \in JsonBodies }
    \cup { [kind |-> "response", status |-> 200, is_json |-> FALSE, body |-> None,
            text |-> "plain"],
           [kind |-> "response", status |-> 400, is_json |-> TRUE, body |-> None,
            text |-> "bad"],
           [kind |-> "timeout", status |-> 0, is_json |-> FALSE, body |-> None,
            text |-> ""],
           [kind |-> "request_error", status |-> 0, is_json |-> FALSE, body |-> None,
            text |-> "conn refused"],
           [kind |-> "fault", status |-> 0, is_json |-> FALSE, body |-> None,
            text |-> "boom"] }

\* _execute_api_call after client.request: the parsed body, or the fault that
\* leaves it (APIExecutionError for status >= 400, timeout and transport
\* failure; any other exception unchanged).
CallResult(outcome) ==
    IF outcome.kind = "response" THEN
        IF outcome.status >= 400
            THEN Raise("APIExecutionError",
                       "API returned error " \o ToString(outcome.status)
                       \o ": " \o outcome.text)
        ELSE IF outcome.is_json THEN Return(outcome.body)
        ELSE Return(JsonDict([k \in {"raw_response"} |-> StrV(outcome.text)]))
    ELSE IF outcome.kind = "timeout"
        THEN Raise("APIExecutionError", "Request timeout after " \o TimeoutText \o "s")
    ELSE IF outcome.kind = "request_error"
        THEN Raise("APIExecutionError", "Request failed: " \o outcome.text)
    ELSE Raise("RuntimeError", outcome.text)

\* ExecuteHandler without the "except Exception" clause.
ExecuteHandlerApiErrorOnly(exc) ==
    IF exc = "APIExecutionError" THEN "api_error" ELSE "uncaught"

\* The except clauses of execute_scenario around one call: which of them, if
\* any, takes an exception of class exc.
ExecuteHandler(exc) ==
    IF exc = "APIExecutionError" THEN "api_error"
    ELSE IF IsException(exc) THEN "unexpected"
    ELSE "uncaught"

\* The result appended for one call that returned or whose fault was caught.
ResultOf(api_mapping, call) ==
    IF ~call.raised THEN SuccessResult(api_mapping, call.value)
    ELSE IF ExecuteHandler(call.exc) = "api_error"
        THEN FailureResult(api_mapping, call.msg)
    ELSE FailureResult(api_mapping, "Unexpected error: " \o call.msg)

Escapes(call) == call.raised /\ ExecuteHandler(call.exc) = "uncaught"

(***************************************************************************)
(* TemplateRenderer.  Jinja2 is the library under the renderer: what it     *)
(* does with a template text is fixed by the text.  A rendered text is      *)
(* [template, data] (the template evaluated against data), which differs    *)
(* from [plain |-> text], a text returned as it is.                         *)
(***************************************************************************)
Plain(text) == [plain |-> text]
Rendered(template, data) == [template |-> template, data |-> data]

\* "" stands for an absent or empty template (both are falsy in render).
NoTemplate == ""

MainTemplates == {"{{ name }}", "{% for %}", "{{ a.b.c }}", "{{ 1/0 }}"}
ErrorTemplates == {"Error: {{ error }}", "{% bad", NoTemplate}
NoDataTemplate == "No data ({{ 1 + 1 }})"

\* env.from_string(template) / tpl.render(**data): the class of the exception
\* raised, "none" when the template renders.
JinjaFault(template) ==
    CASE template \in {"{% for %}", "{% bad"} -> "TemplateSyntaxError"
      [] template = "{{ a.b.c }}" -> "UndefinedError"
      [] template = "{{ 1/0 }}" -> "ZeroDivisionError"
      [] OTHER -> "none"
JinjaMessage(template) ==
    CASE template = "{% for %}" -> "expected token 'name'"
      [] template = "{% bad" -> "unexpected end of template"
      [] template = "{{ a.b.c }}" -> "'a' is undefined"
      [] template = "{{ 1/0 }}" -> "division by zero"
      [] OTHER -> ""

\* RenderHandler with the "except TemplateSyntaxError" clause alone.
RenderHandlerSyntaxOnly(exc) ==
    IF exc = "TemplateSyntaxError" THEN "syntax" ELSE "uncaught"

\* RenderHandler without the "except Exception" clause.
RenderHandlerNoCatchAll(exc) ==
    IF exc = "TemplateSyntaxError" THEN "syntax"
    ELSE IF exc = "UndefinedError" THEN "undefined"
    ELSE "uncaught"

\* The except clauses of render: which of them takes an exception of class exc.
RenderHandler(exc) ==
    IF exc = "TemplateSyntaxError" THEN "syntax"
    ELSE IF exc = "UndefinedError" THEN "undefined"
    ELSE IF IsException(exc) THEN "other"
    ELSE "uncaught"

\* render whose fallback hands the error template on to the nested call, so
\* that a failing error template is rendered a second time before the plain
\* text is returned.
renderRepeatsFallback(template, data, error_template) ==
    LET call == << [template |-> template, data |-> data] >>
        bound(text) == [k \in {"error"} |-> StrV(text)]
        hop(text) == << [template |-> error_template, data |-> bound(text)] >>
    IN IF JinjaFault(template) = "none"
           THEN [raised |-> FALSE, text |-> Rendered(template, data), calls |-> call]
       ELSE IF error_template = NoTemplate
           THEN [raised |-> FALSE,
                 text |-> Plain("Render error: " \o JinjaMessage(template)),
                 calls |-> call]
       ELSE IF JinjaFault(error_template) = "none"
           THEN [raised |-> FALSE,
                 text |-> Rendered(error_template, bound(JinjaMessage(template))),
                 calls |-> call \o hop(JinjaMessage(template))]
       ELSE [raised |-> FALSE,
             text |-> Plain("Render error: " \o JinjaMessage(error_template)),
             calls |-> call \o hop(JinjaMessage(template))
                           \o hop(JinjaMessage(error_template))]

\* render returns [raised |-> FALSE, text |-> the text, calls |-> the templates
\* handed to env.from_string, in order, each with its data], or the exception
\* that leaves it.
RECURSIVE render(_, _, _)
render(template, data, error_template) ==
    LET call == << [template |-> template, data |-> data] >>
        fault == JinjaFault(template)
        message == JinjaMessage(template)
        handler == RenderHandler(fault)
        fallback(error_text, plain_text) ==
            IF error_template # NoTemplate
                THEN LET inner == render(error_template,
                                         [k \in {"error"} |-> StrV(error_text)],
                                         NoTemplate)
                     IN [inner EXCEPT !.calls = call \o inner.calls]
            ELSE [raised |-> FALSE, text |-> Plain(plain_text), calls |-> call]
    IN IF fault = "none"
           THEN [raised |-> FALSE, text |-> Rendered(template, data), calls |-> call]
       ELSE IF handler = "syntax"
           THEN fallback("Template syntax error: " \o message,
                         "Template error: " \o message)
       ELSE IF handler = "undefined"
           THEN fallback("Missing data: " \o message, "Missing data: " \o message)
       ELSE IF handler = "other"
           THEN fallback(message, "Render error: " \o message)
       ELSE [raised |-> TRUE, exc |-> fault, msg |-> message, calls |-> call]

RECURSIVE Join(_, _)
Join(texts, sep) ==
    IF Len(texts) = 0 THEN ""
    ELSE IF Len(texts) = 1 THEN texts[1]
    ELSE texts[1] \o sep \o Join(Tail(texts), sep)

\* errors = [r for r in api_results if not r.get("success")]
Errors(api_results) == SelectSeq(api_results, LAMBDA r : ~r.success)

\* ErrorMessages keeping the first failure only.
ErrorMessagesFirstOnly(api_results) ==
    IF Len(Errors(api_results)) = 0 THEN << >>
    ELSE << Str(Errors(api_results)[1].error) >>

\* error_messages = [r.get("error", "Unknown error") for r in errors]
ErrorMessages(api_results) ==
    [k \in DOMAIN Errors(api_results) |-> Str(Errors(api_results)[k].error)]
CountSuccess(api_results) == Len(SelectSeq(api_results, LAMBDA r : r.success))

Results(api_results) == [results |-> api_results]
Count(n) == [count |-> n]

\* data.update(body): every key of the body, over what is there.
Update(data, body) ==
    [k \in (DOMAIN data) \cup (DOMAIN body.dict) |->
        IF k \in DOMAIN body.dict THEN body.dict[k] ELSE data[k]]

\* CollectOne where the first result that succeeded with a body, whatever its
\* position, becomes the main data.
CollectOneFirstSuccessful(data, result, pos) ==
    IF result.success /\ Truthy(result.data) THEN
        LET main == IF "data" \notin DOMAIN data
                       THEN Put(IF IsDict(result.data) THEN Update(data, result.data)
                                ELSE data,
                                "data", result.data)
                       ELSE data
        IN Put(main, "result_" \o ToString(pos - 1), result.data)
    ELSE data

\* CollectOne where every result, failed ones too, is bound under result_<i>.
CollectOneBindsAll(data, result, pos) ==
    LET main == IF result.success /\ Truthy(result.data) /\ pos - 1 = 0
                   THEN Put(IF IsDict(result.data) THEN Update(data, result.data)
                            ELSE data,
                            "data", result.data)
                   ELSE data
    IN Put(main, "result_" \o ToString(pos - 1), result.data)

\* One turn of "for i, result in enumerate(api_results)"; pos is i + 1.
CollectOne(data, result, pos) ==
    IF result.success /\ Truthy(result.data) THEN
        LET main == IF pos - 1 = 0
                       THEN Put(IF IsDict(result.data) THEN Update(data, result.data)
                                ELSE data,
                                "data", result.data)
                       ELSE data
        IN Put(main, "result_" \o ToString(pos - 1), result.data)
    ELSE data

RECURSIVE CollectFrom(_, _, _)
CollectFrom(data, api_results, pos) ==
    IF pos > Len(api_results) THEN data
    ELSE CollectFrom(CollectOne(data, api_results[pos], pos), api_results, pos + 1)

Collect(api_results) == CollectFrom(EmptyDict, api_results, 1)

\* WithHelpers where _error_count is the length of the whole result list.
WithHelpersCountsAll(data, api_results) ==
    Put(Put(Put(data, "_results", Results(api_results)),
            "_success_count", Count(CountSuccess(api_results))),
        "_error_count", Count(Len(api_results)))

\* The helper keys added before the main render.
WithHelpers(data, api_results) ==
    Put(Put(Put(data, "_results", Results(api_results)),
            "_success_count", Count(CountSuccess(api_results))),
        "_error_count", Count(Len(Errors(api_results))))

\* render_api_response returns what render returned (the text, or the
\* exception that left it) with the branch taken (path) and the context handed
\* to the main render (EmptyDict on the other branches).
render_api_response(template, api_results, error_template, no_data_template) ==
    IF Len(Errors(api_results)) > 0 /\ CountSuccess(api_results) = 0 THEN
        LET r == render(error_template,
                        [k \in {"error"} |-> StrV(Join(ErrorMessages(api_results), "; "))],
                        NoTemplate)
        IN [rendered |-> r, path |-> "error", context |-> EmptyDict]
    ELSE IF DOMAIN Collect(api_results) = {} THEN
        [rendered |-> [raised |-> FALSE, text |-> Plain(no_data_template),
                       calls |-> << >>],
         path |-> "no_data", context |-> EmptyDict]
    ELSE
        LET data == WithHelpers(Collect(api_results), api_results)
        IN [rendered |-> render(template, data, error_template),
            path |-> "main", context |-> data]

(***************************************************************************)
(* The scenarios of the agent's configuration and what the external         *)
(* matcher can return for a question.                                       *)
(***************************************************************************)
PM(entity, parameter, transform) ==
    [entity_name |-> entity, api_parameter |-> parameter, transform |-> transform]

UserMapping ==
    [endpoint_path |-> "/users/{id}", method |-> "GET",
     parameter_mappings |-> << PM("id", "id", "int"), PM("q", "q", "lowercase") >>,
     static_params |-> << >>]
OrderMapping ==
    [endpoint_path |-> "/orders", method |-> "POST",
     parameter_mappings |-> << PM("q", "note", "") >>,
     static_params |-> << [param |-> "qty", value |-> IntV("1")] >>]

Mappings == {UserMapping, OrderMapping}

MappingLists == UNION {[1..n -> Mappings] : n \in 0..MaxMappings}

NoResponseTemplate == [none |-> TRUE]
ResponseTemplates ==
    {NoResponseTemplate}
    \cup [template : MainTemplates, error_template : ErrorTemplates,
          no_data_template : {NoDataTemplate}]
HasTemplate(scenario) == "none" \notin DOMAIN scenario.response_template

Scenarios ==
    [name : {"lookup"},
     required_entities : {<< >>, << "id" >>, << "id", "q" >>},
     api_mappings : MappingLists,
     response_template : ResponseTemplates]

Entity(n, v) == [name |-> n, value |-> v]
EntityLists ==
    { << >>,
      << Entity("id", StrV("A1")) >>,
      << Entity("id", None) >>,
      << Entity("id", StrV("42")), Entity("q", StrV("Hi")) >> }

Confidences == {29, 30, 100}

NoMatch == [none |-> TRUE]
MatchResults ==
    {NoMatch}
    \cup [scenario : Scenarios, confidence : Confidences,
          extracted_entities : EntityLists]
IsMatch(m) == "none" \notin DOMAIN m


(***************************************************************************)
(* State of one QAAgent serving answer requests one after the other.        *)
(***************************************************************************)
VARIABLES
    pc,         \* where answer() is: "idle", "matching", "calling",
                \* "generating", "done", "raised"
    match,      \* what match_scenario returned (NoMatch before and for None)
    engine,     \* execute_scenario: "idle" (not invoked), "running", "returned"
    idx,        \* position (from 1) of the mapping whose call is in flight
    inflight,   \* the request handed to client.request, or NoRequest
    results,    \* the results list of execute_scenario
    calls,      \* how _execute_api_call ended for each mapping so far
    trace,      \* the events of execute_scenario so far, in order
    rendering,  \* what render_api_response did, or NoRendering
    response    \* the AgentResponse returned, Raised, or NoResponse

\* One APIExecutor building the request of one _execute_api_call.
VARIABLES
    api_call,   \* the arguments of _execute_api_call, or NoCall
    prepared    \* the request handed to client.request or the fault, or NoCall

\* The OpenAPIParser of one APIAgentApp and the upload_api_spec in progress.
VARIABLES
    warnings,       \* parser.warnings
    document,       \* the arguments of the most recent parse call, or NoCall
    parsed,         \* how the most recent parse call ended, or NoCall
    parse_warnings, \* parser.warnings as the most recent parse call left it
    repeat,         \* "same"/"differs": the most recent parse call had the
                    \* arguments of the one before it and the same/another
                    \* outcome; "none": it had other arguments
    upload,         \* where upload_api_spec is: "idle", "looking", "updating",
                    \* "returned", "raised"
    ai_service      \* TRUE when the app has an AIService

\* One helper function called with one list of arguments.
VARIABLES
    fn_call,    \* the function and its arguments, or NoCall
    fn_result   \* what the call returned or raised, or NoCall

\* The SessionManager database, the AgentManager and the APIAgentApp requests
\* in progress.
VARIABLES
    sessions,   \* the sessions table: id -> row
    agents,     \* the agents table: its rows in the order of insertion
    registry,   \* AgentManager.agents: the ids of the registered agents
    handlers    \* the APIAgentApp coroutines: request -> its locals

\* One QAAgent serving answer requests concurrently.
VARIABLES
    config,     \* what the requests share: the agent's config, executor, renderer
    tasks       \* the answer coroutines: request -> its locals

agent_vars == << pc, match, engine, idx, inflight, results, calls, trace, rendering,
                 response >>
build_vars == << api_call, prepared >>
parser_vars == << warnings, document, parsed, parse_warnings, repeat, upload,
                  ai_service >>
function_vars == << fn_call, fn_result >>
session_vars == << sessions, agents, registry, handlers >>
concurrent_vars == << config, tasks >>
rest_vars == << function_vars, session_vars, concurrent_vars >>
vars == << agent_vars, build_vars, parser_vars, rest_vars >>

NoCall == [none |-> TRUE]

NoRequest == [none |-> TRUE]
NoRendering == [none |-> TRUE]
NoResponse == [none |-> TRUE]
Raised == [raised |-> TRUE]

Event(kind, i) == [ev |-> kind, idx |-> i]

LowConfidenceText ==
    "Xin loi, toi khong hieu cau hoi cua ban. Vui long thu dien dat theo cach khac."
MissingText(missing) == "Vui long cung cap them thong tin: " \o Join(missing, ", ")
AllFailedText(api_results) ==
    "Xin loi, khong the lay thong tin. Loi: " \o Join(ErrorMessages(api_results), "; ")
Generated(arg) == [generated |-> arg]

AgentResponse(answer, scenario_used, api_results) ==
    [answer |-> answer, scenario_used |-> scenario_used,
     api_calls_made |-> [k \in DOMAIN api_results |->
                            [endpoint |-> api_results[k].endpoint,
                             success |-> api_results[k].success]],
     raw_api_responses |-> api_results]

_check_missing_entities(scenario, entities) ==
    LET extracted_names == {entities[k].name : k \in DOMAIN entities}
    IN SelectSeq(scenario.required_entities, LAMBDA required : required \notin extracted_names)

\* LowConfidence without the comparison with the threshold.
LowConfidenceNoThreshold(m) == ~IsMatch(m)

\* The first early return of answer(): no match, or confidence below 0.3.
LowConfidence(m) == ~IsMatch(m) \/ m.confidence < ConfidenceThreshold

\* RunLoop where a mapping whose request cannot be built is skipped without a
\* result.
RECURSIVE RunLoopSkipsFaults(_, _, _, _, _, _)
RunLoopSkipsFaults(api_mappings, entity_map, i, res, cls, tr) ==
    IF i > Len(api_mappings)
        THEN [state |-> "returned", idx |-> 0, request |-> NoRequest,
              results |-> res, calls |-> cls, trace |-> tr]
    ELSE LET built == BuildRequest(AuthConfig, api_mappings[i], entity_map)
         IN IF built.raised
               THEN RunLoopSkipsFaults(api_mappings, entity_map, i + 1, res, cls,
                                       Append(tr, Event("fault", i)))
            ELSE [state |-> "awaiting", idx |-> i, request |-> built.value,
                  results |-> res, calls |-> cls,
                  trace |-> Append(tr, Event("send", i))]

\* execute_scenario from mapping i on, up to the next request that is really
\* sent (the coroutine suspends there), to the end of the list, or to a fault
\* no except clause takes.  A fault raised while the request is built is
\* handled at once and the loop goes on.
RECURSIVE RunLoop(_, _, _, _, _, _)
RunLoop(api_mappings, entity_map, i, res, cls, tr) ==
    IF i > Len(api_mappings)
        THEN [state |-> "returned", idx |-> 0, request |-> NoRequest,
              results |-> res, calls |-> cls, trace |-> tr]
    ELSE LET built == BuildRequest(AuthConfig, api_mappings[i], entity_map)
         IN IF Escapes(built)
               THEN [state |-> "raised", idx |-> i, request |-> NoRequest,
                     results |-> res, calls |-> Append(cls, built),
                     trace |-> Append(tr, Event("fault", i))]
            ELSE IF built.raised
               THEN RunLoop(api_mappings, entity_map, i + 1,
                            Append(res, ResultOf(api_mappings[i], built)),
                            Append(cls, built),
                            Append(tr, Event("fault", i)))
            ELSE [state |-> "awaiting", idx |-> i, request |-> built.value,
                  results |-> res, calls |-> cls,
                  trace |-> Append(tr, Event("send", i))]

\* successful_data = [r["data"] for r in api_results if success and data]
SuccessfulData(api_results) ==
    LET kept == SelectSeq(api_results, LAMBDA r : r.success /\ Truthy(r.data))
    IN [k \in DOMAIN kept |-> kept[k].data]

\* answer() after execute_scenario returned: step 4 and the return.
Finish(scenario, api_results) ==
    IF HasTemplate(scenario) THEN
        LET r == render_api_response(scenario.response_template.template,
                                     api_results,
                                     scenario.response_template.error_template,
                                     scenario.response_template.no_data_template)
        IN /\ rendering' = r
           /\ IF r.rendered.raised
                 THEN response' = Raised /\ pc' = "raised"
                 ELSE /\ response' = AgentResponse(r.rendered.text,
                                                   StrV(scenario.name), api_results)
                      /\ pc' = "done"
    ELSE IF Len(SuccessfulData(api_results)) > 0 THEN
        /\ rendering' = NoRendering
        /\ response' = NoResponse
        /\ pc' = "generating"
    ELSE
        /\ rendering' = NoRendering
        /\ response' = AgentResponse(Plain(AllFailedText(api_results)),
                                     StrV(scenario.name), api_results)
        /\ pc' = "done"

\* answer() from "api_results = await execute_scenario(...)" on, given how far
\* the loop of execute_scenario got.
Proceed(scenario, run) ==
    /\ results' = run.results
    /\ calls' = run.calls
    /\ trace' = run.trace
    /\ idx' = run.idx
    /\ inflight' = run.request
    /\ IF run.state = "awaiting"
          THEN /\ engine' = "running"
               /\ pc' = "calling"
               /\ rendering' = NoRendering
               /\ response' = NoResponse
       ELSE IF run.state = "raised"
          THEN /\ engine' = "running"
               /\ pc' = "raised"
               /\ rendering' = NoRendering
               /\ response' = Raised
       ELSE /\ engine' = "returned"
            /\ Finish(scenario, run.results)

\* A QAAgent that has served no request.
AgentIdle ==
    /\ pc = "idle"
    /\ match = NoMatch
    /\ engine = "idle"
    /\ idx = 0
    /\ inflight = NoRequest
    /\ results = << >>
    /\ calls = << >>
    /\ trace = << >>
    /\ rendering = NoRendering
    /\ response = NoResponse

\* An APIExecutor that has built no request.
ExecutorIdle ==
    /\ api_call = NoCall
    /\ prepared = NoCall

\* OpenAPIParser.__init__, and no upload in progress.
ParserIdle ==
    /\ warnings = << >>
    /\ document = NoCall
    /\ parsed = NoCall
    /\ parse_warnings = << >>
    /\ repeat = "none"
    /\ upload = "idle"

\* No helper function called.
FunctionIdle ==
    /\ fn_call = NoCall
    /\ fn_result = NoCall

\* An empty database, no agent registered, no request in progress.
StoreIdle ==
    /\ sessions = << >>
    /\ agents = << >>
    /\ registry = {}
    /\ handlers = << >>

\* No concurrent answer request.
ConcurrentIdle ==
    /\ config = NoCall
    /\ tasks = << >>

RestIdle == FunctionIdle /\ StoreIdle /\ ConcurrentIdle

Init ==
    /\ AgentIdle
    /\ ExecutorIdle
    /\ ParserIdle
    /\ RestIdle
    /\ ai_service = TRUE

\* answer(question) is called: it awaits ai_service.match_scenario.
Answer ==
    /\ pc \in {"idle", "done", "raised"}
    /\ pc' = "matching"
    /\ match' = NoMatch
    /\ engine' = "idle"
    /\ idx' = 0
    /\ inflight' = NoRequest
    /\ results' = << >>
    /\ calls' = << >>
    /\ trace' = << >>
    /\ rendering' = NoRendering
    /\ response' = NoResponse
    /\ UNCHANGED << build_vars, parser_vars, rest_vars >>

\* match_scenario raises: answer() has no handler around it.
MatcherRaises ==
    /\ pc = "matching"
    /\ pc' = "raised"
    /\ response' = Raised
    /\ UNCHANGED << match, engine, idx, inflight, results, calls, trace, rendering >>
    /\ UNCHANGED << build_vars, parser_vars, rest_vars >>

\* match_scenario returns m: the two early returns, then execute_scenario up
\* to its first suspension (or through rendering when nothing is sent).
MatcherReturns ==
    /\ pc = "matching"
    /\ \E m \in MatchResults :
        /\ match' = m
        /\ IF LowConfidence(m) THEN
              /\ response' = AgentResponse(Plain(LowConfidenceText), None, << >>)
              /\ pc' = "done"
              /\ UNCHANGED << engine, idx, inflight, results, calls, trace, rendering >>
           ELSE IF Len(_check_missing_entities(m.scenario, m.extracted_entities)) > 0 THEN
              /\ response' = AgentResponse(
                    Plain(MissingText(_check_missing_entities(m.scenario,
                                                              m.extracted_entities))),
                    StrV(m.scenario.name), << >>)
              /\ pc' = "done"
              /\ UNCHANGED << engine, idx, inflight, results, calls, trace, rendering >>
           ELSE Proceed(m.scenario,
                        RunLoop(m.scenario.api_mappings, EntityMap(m.extracted_entities),
                                1, << >>, << >>, << >>))
    /\ UNCHANGED << build_vars, parser_vars, rest_vars >>

\* client.request of the call in flight ends with outcome o: the result is
\* appended and the loop goes on to the next suspension or to the return.
Complete(o) ==
    LET api_mappings == match.scenario.api_mappings
        call == CallResult(o)
    IN IF Escapes(call)
          THEN Proceed(match.scenario,
                       [state |-> "raised", idx |-> idx, request |-> NoRequest,
                        results |-> results, calls |-> Append(calls, call),
                        trace |-> Append(trace, Event("complete", idx))])
          ELSE Proceed(match.scenario,
                       RunLoop(api_mappings, EntityMap(match.extracted_entities),
                               idx + 1,
                               Append(results, ResultOf(api_mappings[idx], call)),
                               Append(calls, call),
                               Append(trace, Event("complete", idx))))

\* HttpCompletes where a timeout sends the same request again.
HttpCompletesRetry ==
    /\ pc = "calling"
    /\ \E o \in HttpOutcomes :
        IF o.kind = "timeout"
           THEN /\ trace' = trace \o << Event("complete", idx), Event("send", idx) >>
                /\ UNCHANGED << pc, engine, idx, inflight, results, calls, rendering,
                                response >>
           ELSE Complete(o)
    /\ UNCHANGED match
    /\ UNCHANGED << build_vars, parser_vars, rest_vars >>

HttpCompletes ==
    /\ pc = "calling"
    /\ \E o \in HttpOutcomes : Complete(o)
    /\ UNCHANGED match
    /\ UNCHANGED << build_vars, parser_vars, rest_vars >>

\* No response template: ai_service.generate_response returns the answer.
GeneratorReturns ==
    /\ pc = "generating"
    /\ LET data == SuccessfulData(results)
       IN response' = AgentResponse(
              Generated(IF Len(data) = 1 THEN data[1] ELSE JsonList(data)),
              StrV(match.scenario.name), results)
    /\ pc' = "done"
    /\ UNCHANGED << match, engine, idx, inflight, results, calls, trace, rendering >>
    /\ UNCHANGED << build_vars, parser_vars, rest_vars >>

\* ... or raises, and the fault leaves answer().
GeneratorRaises ==
    /\ pc = "generating"
    /\ response' = Raised
    /\ pc' = "raised"
    /\ UNCHANGED << match, engine, idx, inflight, results, calls, trace, rendering >>
    /\ UNCHANGED << build_vars, parser_vars, rest_vars >>

Next ==
    \/ Answer
    \/ MatcherRaises
    \/ MatcherReturns
    \/ HttpCompletes
    \/ GeneratorReturns
    \/ GeneratorRaises

Spec == Init /\ [][Next]_vars

(***************************************************************************)
(* APIExecutor._execute_api_call on its own: the request it builds for one  *)
(* mapping and one entity list, up to the call of client.request.           *)
(***************************************************************************)
CallTargets ==
    { << "/users/{id}", "GET" >>, << "/orders", "POST" >>,
      << "/search", "GET" >>, << "/users/{id}/items/{sku}", "GET" >> }
CallParameterMappings ==
    { PM("id", "id", "int"), PM("id", "id", ""), PM("q", "q", "lowercase"),
      PM("q", "sku", ""), PM("q", "Authorization", ""), PM("q", "note", "") }
CallStaticParams ==
    { << >>,
      << [param |-> "id", value |-> IntV("7")] >>,
      << [param |-> "sku", value |-> StrV("S1")],
         [param |-> "limit", value |-> IntV("1")] >> }
CallMappings ==
    { [endpoint_path |-> t[1], method |-> t[2],
       parameter_mappings |-> pms, static_params |-> statics] :
        t \in CallTargets,
        pms \in UNION {[1..n -> CallParameterMappings] : n \in 0..MaxParameterMappings},
        statics \in CallStaticParams }

CallEntityLists ==
    EntityLists \cup { << Entity("id", None), Entity("q", None) >> }

\* _execute_api_call is about to be called with one mapping and the entities
\* of one question.
BuildInit ==
    /\ AgentIdle
    /\ ParserIdle
    /\ RestIdle
    /\ ai_service = TRUE
    /\ api_call \in [auth_config : AuthConfigs, api_mapping : CallMappings,
                     entities : CallEntityLists]
    /\ prepared = NoCall

\* _execute_api_call(api_mapping, entity_map) up to client.request.
ExecuteApiCall ==
    /\ prepared = NoCall
    /\ prepared' = BuildRequest(api_call.auth_config, api_call.api_mapping,
                                EntityMap(api_call.entities))
    /\ UNCHANGED << api_call, agent_vars, parser_vars, rest_vars >>

BuildNext == ExecuteApiCall

BuildSpec == BuildInit /\ [][BuildNext]_vars


(***************************************************************************)
(* OpenAPIParser.  A loaded YAML/JSON value is a Python value as above; an  *)
(* object (dict) is [obj |-> its items in document order], each item        *)
(* [k |-> key, v |-> value], and an array is [list |-> its items].          *)
(***************************************************************************)
Item(k, v) == [k |-> k, v |-> v]
Obj(items) == [obj |-> items]
Arr(items) == [list |-> items]
EmptyObj == Obj(<< >>)

IsObj(v) == "obj" \in DOMAIN v
IsStr(v) == "str" \in DOMAIN v

\* key in d
Has(d, key) == \E i \in DOMAIN d.obj : d.obj[i].k = key
\* d.get(key, default) and d[key]
At(d, key, default) ==
    IF Has(d, key)
        THEN d.obj[CHOOSE i \in DOMAIN d.obj : d.obj[i].k = key].v
    ELSE default

\* bool(v)
Bool(v) ==
    IF "none" \in DOMAIN v THEN FALSE
    ELSE IF "str" \in DOMAIN v THEN v.str # ""
    ELSE IF "int" \in DOMAIN v THEN v.int # "0"
    ELSE IF "float" \in DOMAIN v THEN v.float # "0.0"
    ELSE IF "bool" \in DOMAIN v THEN v.bool
    ELSE IF "obj" \in DOMAIN v THEN Len(v.obj) > 0
    ELSE Len(v.list) > 0

\* A content text is what the two loaders make of it: lang is "json" for a
\* JSON text (which YAML loads as well), "yaml" for a YAML text that is no
\* JSON, "neither" for a text no loader takes; top is the loaded value.
Content(lang, top) == [lang |-> lang, top |-> top]

FormatLower(format) == CASE format = "YAML" -> "yaml" [] OTHER -> format

\* The try block of parse: yaml.safe_load / json.loads and the two except
\* clauses.
Load(content, format) ==
    IF FormatLower(format) = "yaml" THEN
        IF content.lang \in {"yaml", "json"} THEN Return(content.top)
        ELSE Raise("OpenAPIParserError", "Invalid YAML format")
    ELSE
        IF content.lang = "json" THEN Return(content.top)
        ELSE Raise("OpenAPIParserError", "Invalid JSON format")

SUPPORTED_VERSIONS == {"3.0", "3.1"}

\* ".".join(openapi_version.split(".")[:2]) for the version texts of the model.
MajorMinor(text) ==
    CASE text = "3.0.3" -> "3.0"
      [] text = "3.1.0" -> "3.1"
      [] text = "3.2.1" -> "3.2"
      [] text = "2.0" -> "2.0"
      [] OTHER -> text

\* Return(None), or the exception that leaves _validate_version: a version
\* that is no text has no split().
_validate_version(spec) ==
    LET openapi_version == At(spec, "openapi", StrV(""))
    IN IF ~Bool(openapi_version)
          THEN Raise("OpenAPIParserError", "Missing 'openapi' version field")
       ELSE IF ~IsStr(openapi_version)
          THEN Raise("AttributeError", "object has no attribute 'split'")
       ELSE IF MajorMinor(openapi_version.str) \notin SUPPORTED_VERSIONS
          THEN Raise("OpenAPIParserError",
                     "Unsupported OpenAPI version: " \o openapi_version.str
                        \o ". Supported versions: 3.0, 3.1")
       ELSE Return(None)

\* Parser steps return [raised |-> FALSE, value |-> v, warnings |-> w], w
\* being self.warnings after the step, or the exception and self.warnings
\* when it was raised.
Done(v, w) == [raised |-> FALSE, value |-> v, warnings |-> w]
Fail(exc, m, w) == [raised |-> TRUE, exc |-> exc, msg |-> m, warnings |-> w]

\* ref.startswith("#/") and ref.split("/")[1:] for the references of the model.
IsInternalRef(ref) == ref # "other.yaml#/Limit"
RefParts(ref) ==
    CASE ref = "#/components/parameters/Limit" -> << "components", "parameters", "Limit" >>
      [] ref = "#/components/parameters/Missing" ->
            << "components", "parameters", "Missing" >>
      [] ref = "#/components/schemas/Pet" -> << "components", "schemas", "Pet" >>
      [] ref = "#/components/schemas/Missing" -> << "components", "schemas", "Missing" >>
      [] ref = "#/components/responses/Missing" ->
            << "components", "responses", "Missing" >>
      [] ref = "#/components/requestBodies/Missing" ->
            << "components", "requestBodies", "Missing" >>
      [] OTHER -> << ref >>

RECURSIVE Walk(_, _, _)
Walk(current, parts, k) ==
    IF k > Len(parts) THEN Return(current)
    ELSE IF IsObj(current) /\ Has(current, parts[k])
        THEN Walk(At(current, parts[k], None), parts, k + 1)
    ELSE Raise("unresolved", "")

\* value bound to a name: Bind(v, LAMBDA x : e) is e with x standing for v.
Bind(v, In(_)) == CHOOSE r \in {In(x) : x \in {v}} : TRUE

\* _resolve_ref that says nothing when the walk fails.
_resolve_refSilent(ref, components, w) ==
    IF ~IsInternalRef(ref)
        THEN Done(None, Append(w, "External reference not supported: " \o ref))
    ELSE Bind(Walk(Obj(<< Item("components", components) >>), RefParts(ref), 1),
              LAMBDA walked :
                 IF ~walked.raised /\ IsObj(walked.value) THEN Done(walked.value, w)
                 ELSE Done(None, w))

\* _resolve_ref: the dict the pointer leads to, or None; a warning for an
\* external reference and for a walk that fails.
_resolve_ref(ref, components, w) ==
    IF ~IsInternalRef(ref)
        THEN Done(None, Append(w, "External reference not supported: " \o ref))
    ELSE Bind(Walk(Obj(<< Item("components", components) >>), RefParts(ref), 1),
              LAMBDA walked :
                 IF walked.raised
                    THEN Done(None, Append(w, "Could not resolve reference: " \o ref))
                 ELSE IF IsObj(walked.value) THEN Done(walked.value, w)
                 ELSE Done(None, w))

\* "if '$ref' in x: x = self._resolve_ref(x['$ref'], components)"
Resolved(x, components, w) ==
    IF Has(x, "$ref") THEN _resolve_ref(At(x, "$ref", None).str, components, w)
    ELSE Done(x, w)

_map_type(type_str) ==
    IF type_str \in {"string", "integer", "number", "boolean", "array", "object"}
        THEN type_str
    ELSE "string"

APIParameter(name, location, param_type, required) ==
    [name |-> name, location |-> location, param_type |-> param_type,
     required |-> required]

\* location_map.get(param.get("in", "query"), ParameterLocation.QUERY)
LocationOf(param) ==
    LET declared == At(param, "in", StrV("query"))
    IN IF IsStr(declared) /\ declared.str \in {"path", "query", "header"}
          THEN declared.str
       ELSE "query"

\* The loop of _parse_parameters from entry k on.  Every entry of a parameters
\* list of the model is an object.
RECURSIVE ParametersFrom(_, _, _, _, _)
ParametersFrom(parameters, k, components, result, w) ==
    IF k > Len(parameters) THEN Done(result, w)
    ELSE Bind(Resolved(parameters[k], components, w),
              LAMBDA resolved :
                 IF Has(parameters[k], "$ref") /\ ~Bool(resolved.value)
                    THEN ParametersFrom(parameters, k + 1, components, result,
                                        resolved.warnings)
                 ELSE ParametersFrom(parameters, k + 1, components,
                         Append(result,
                                APIParameter(
                                    At(resolved.value, "name", StrV("")).str,
                                    LocationOf(resolved.value),
                                    _map_type(At(At(resolved.value, "schema", EmptyObj),
                                                 "type", StrV("string")).str),
                                    At(resolved.value, "required", BoolV(FALSE)).bool)),
                         resolved.warnings))

_parse_parameters(parameters, components, w) ==
    ParametersFrom(parameters, 1, components, << >>, w)

\* The loop over content.items() of _parse_request_body from item k on.
RECURSIVE MediaFrom(_, _, _, _, _)
MediaFrom(content, k, components, result, w) ==
    IF k > Len(content.obj) THEN Done(Obj(result), w)
    ELSE Bind(Resolved(At(content.obj[k].v, "schema", EmptyObj), components, w),
              LAMBDA schema :
                 MediaFrom(content, k + 1, components,
                           Append(result,
                                  Item(content.obj[k].k,
                                       Obj(<< Item("schema", schema.value),
                                              Item("example",
                                                   At(content.obj[k].v, "example",
                                                      None)) >>))),
                           schema.warnings))

_parse_request_body(request_body, components, w) ==
    Bind(Resolved(request_body, components, w),
         LAMBDA resolved :
            IF Has(request_body, "$ref") /\ ~Bool(resolved.value)
               THEN Done(EmptyObj, resolved.warnings)
            ELSE Bind(MediaFrom(At(resolved.value, "content", EmptyObj), 1, components,
                                << >>, resolved.warnings),
                      LAMBDA media :
                         Done(Obj(<< Item("required",
                                          At(resolved.value, "required", BoolV(FALSE))),
                                     Item("description",
                                          At(resolved.value, "description", StrV(""))),
                                     Item("content", media.value) >>),
                              media.warnings)))

\* int(status_code), 200 when it raises ValueError.
StatusCode(status_code) ==
    CASE status_code = "200" -> 200
      [] status_code = "404" -> 404
      [] OTHER -> 200

APIResponse(status_code, description, schema) ==
    [status_code |-> status_code, description |-> description, schema |-> schema]

\* The schema of _parse_responses: that of "application/json", resolved, {}
\* when there is none or it does not resolve.
ResponseSchema(content, components, w) ==
    IF ~Has(content, "application/json") THEN Done(EmptyObj, w)
    ELSE Bind(Resolved(At(At(content, "application/json", EmptyObj), "schema", EmptyObj),
                       components, w),
              LAMBDA schema :
                 Done(IF Bool(schema.value) THEN schema.value ELSE EmptyObj,
                      schema.warnings))

\* The loop over responses.items() of _parse_responses from item k on.
RECURSIVE ResponsesFrom(_, _, _, _, _)
ResponsesFrom(responses, k, components, result, w) ==
    IF k > Len(responses.obj) THEN Done(result, w)
    ELSE Bind(Resolved(responses.obj[k].v, components, w),
              LAMBDA resolved :
                 IF Has(responses.obj[k].v, "$ref") /\ ~Bool(resolved.value)
                    THEN ResponsesFrom(responses, k + 1, components, result,
                                       resolved.warnings)
                 ELSE Bind(ResponseSchema(At(resolved.value, "content", EmptyObj),
                                          components, resolved.warnings),
                           LAMBDA schema :
                              ResponsesFrom(responses, k + 1, components,
                                  Append(result,
                                         APIResponse(
                                             StatusCode(responses.obj[k].k),
                                             At(resolved.value, "description",
                                                StrV("")).str,
                                             schema.value)),
                                  schema.warnings)))

_parse_responses(responses, components, w) ==
    ResponsesFrom(responses, 1, components, << >>, w)

\* The characters of the paths of the model.
Chars(path) ==
    CASE path = "/users/{id}" ->
            << "/", "u", "s", "e", "r", "s", "/", "{", "i", "d", "}" >>
      [] path = "/users/{id}/orders" ->
            << "/", "u", "s", "e", "r", "s", "/", "{", "i", "d", "}",
               "/", "o", "r", "d", "e", "r", "s" >>
      [] path = "/orders" -> << "/", "o", "r", "d", "e", "r", "s" >>
      [] path = "/{id}" -> << "/", "{", "i", "d", "}" >>
      [] OTHER -> << "/" >>

RECURSIVE Text(_)
Text(chars) == IF Len(chars) = 0 THEN "" ELSE Head(chars) \o Text(Tail(chars))

\* re.sub(r'\{[^}]+\}', '', path) from character k on.
RECURSIVE RemovePlaceholders(_, _)
RemovePlaceholders(chars, k) ==
    IF k > Len(chars) THEN << >>
    ELSE LET closing == {j \in (k + 1)..Len(chars) : chars[j] = "}"}
             first == CHOOSE j \in closing : \A i \in closing : j <= i
         IN IF chars[k] = "{" /\ closing # {} /\ first > k + 1
               THEN RemovePlaceholders(chars, first + 1)
            ELSE << chars[k] >> \o RemovePlaceholders(chars, k + 1)

\* str.replace('/', '_')
SlashesToUnderscores(chars) ==
    [i \in DOMAIN chars |-> IF chars[i] = "/" THEN "_" ELSE chars[i]]

\* str.strip('_')
RECURSIVE StripUnderscores(_)
StripUnderscores(chars) ==
    IF Len(chars) = 0 THEN chars
    ELSE IF Head(chars) = "_" THEN StripUnderscores(Tail(chars))
    ELSE IF chars[Len(chars)] = "_"
        THEN StripUnderscores(SubSeq(chars, 1, Len(chars) - 1))
    ELSE chars

\* re.sub(r'_+', '_', text)
RECURSIVE CollapseUnderscores(_)
CollapseUnderscores(chars) ==
    IF Len(chars) < 2 THEN chars
    ELSE IF chars[1] = "_" /\ chars[2] = "_" THEN CollapseUnderscores(Tail(chars))
    ELSE << chars[1] >> \o CollapseUnderscores(Tail(chars))

\* method.upper() in _parse_paths and method.lower() in _generate_operation_id.
MethodUpper(method) ==
    CASE method = "get" -> "GET" [] method = "post" -> "POST" [] method = "put" -> "PUT"
      [] method = "patch" -> "PATCH" [] method = "delete" -> "DELETE" [] OTHER -> method
MethodLower(method) ==
    CASE method = "GET" -> "get" [] method = "POST" -> "post" [] method = "PUT" -> "put"
      [] method = "PATCH" -> "patch" [] method = "DELETE" -> "delete" [] OTHER -> method

\* _generate_operation_id without the re.sub that collapses underscores.
_generate_operation_idNoCollapse(path, method) ==
    LET clean_path == Text(StripUnderscores(SlashesToUnderscores(
                              RemovePlaceholders(Chars(path), 1))))
    IN IF clean_path # "" THEN MethodLower(method) \o "_" \o clean_path
       ELSE MethodLower(method)

_generate_operation_id(path, method) ==
    LET clean_path == Text(CollapseUnderscores(StripUnderscores(SlashesToUnderscores(
                              RemovePlaceholders(Chars(path), 1)))))
    IN IF clean_path # "" THEN MethodLower(method) \o "_" \o clean_path
       ELSE MethodLower(method)

\* all_params[p.name] = p: a dict keeps the place of a key that is assigned
\* again.
PutParameter(all_params, p) ==
    IF \E i \in DOMAIN all_params : all_params[i].name = p.name
        THEN [i \in DOMAIN all_params |->
                 IF all_params[i].name = p.name THEN p ELSE all_params[i]]
    ELSE Append(all_params, p)

RECURSIVE PutParameters(_, _, _)
PutParameters(all_params, params, k) ==
    IF k > Len(params) THEN all_params
    ELSE PutParameters(PutParameter(all_params, params[k]), params, k + 1)

\* MergeParameters where a path-level parameter keeps its place and its value
\* against an operation-level parameter of the same name.
MergeParametersPathWins(path_params, op_params) ==
    PutParameters(PutParameters(<< >>, op_params, 1), path_params, 1)

\* "Merge path and operation parameters" of _parse_operation.
MergeParameters(path_params, op_params) ==
    PutParameters(PutParameters(<< >>, path_params, 1), op_params, 1)

APIEndpoint(path, method, operation_id, parameters, request_body, responses) ==
    [path |-> path, method |-> method, operation_id |-> operation_id,
     parameters |-> parameters, request_body |-> request_body,
     responses |-> responses]

\* An operation that is no object has no get().
_parse_operation(path, method, operation, path_params, components, w) ==
    IF ~IsObj(operation)
        THEN Fail("AttributeError", "object has no attribute 'get'", w)
    ELSE
    Bind(_parse_parameters(At(operation, "parameters", Arr(<< >>)).list, components, w),
      LAMBDA op_params :
    Bind(IF Has(operation, "requestBody")
            THEN _parse_request_body(At(operation, "requestBody", None), components,
                                     op_params.warnings)
         ELSE Done(None, op_params.warnings),
      LAMBDA request_body :
    Bind(_parse_responses(At(operation, "responses", EmptyObj), components,
                          request_body.warnings),
      LAMBDA responses :
    Bind(_generate_operation_id(path, method),
      LAMBDA generated :
        IF Bool(At(operation, "operationId", StrV("")))
           THEN Done(APIEndpoint(path, method, At(operation, "operationId", None).str,
                                 MergeParameters(path_params, op_params.value),
                                 request_body.value, responses.value),
                     responses.warnings)
        ELSE Done(APIEndpoint(path, method, generated,
                              MergeParameters(path_params, op_params.value),
                              request_body.value, responses.value),
                  Append(responses.warnings,
                         "Missing operationId for " \o method \o " " \o path
                            \o ", generated: " \o generated))))))

\* ParsedMethods without "delete".
ParsedMethodsNoDelete == << "get", "post", "put", "patch" >>

\* class HTTPMethod(str, Enum)
HTTPMethod == << "GET", "POST", "PUT", "PATCH", "DELETE" >>

\* ParsedMethods with "delete" looked for first.
ParsedMethodsDeleteFirst == << "delete", "get", "post", "put", "patch" >>

\* for method in ["get", "post", "put", "patch", "delete"]
ParsedMethods == << "get", "post", "put", "patch", "delete" >>

\* The inner loop of _parse_paths from method m on.
RECURSIVE OperationsFrom(_, _, _, _, _, _, _)
OperationsFrom(path, path_item, m, path_params, components, endpoints, w) ==
    IF m > Len(ParsedMethods) THEN Done(endpoints, w)
    ELSE IF ~Has(path_item, ParsedMethods[m])
        THEN OperationsFrom(path, path_item, m + 1, path_params, components, endpoints, w)
    ELSE Bind(_parse_operation(path, MethodUpper(ParsedMethods[m]),
                               At(path_item, ParsedMethods[m], None),
                               path_params, components, w),
              LAMBDA endpoint :
                 IF endpoint.raised THEN endpoint
                 ELSE OperationsFrom(path, path_item, m + 1, path_params, components,
                                     Append(endpoints, endpoint.value),
                                     endpoint.warnings))

\* The outer loop of _parse_paths from item k of paths on.
RECURSIVE PathsFrom(_, _, _, _, _)
PathsFrom(paths, k, components, endpoints, w) ==
    IF k > Len(paths.obj) THEN Done(endpoints, w)
    ELSE IF ~IsObj(paths.obj[k].v) THEN PathsFrom(paths, k + 1, components, endpoints, w)
    ELSE
    Bind(_parse_parameters(At(paths.obj[k].v, "parameters", Arr(<< >>)).list,
                           components, w),
      LAMBDA path_params :
    Bind(OperationsFrom(paths.obj[k].k, paths.obj[k].v, 1, path_params.value,
                        components, endpoints, path_params.warnings),
      LAMBDA operations :
        IF operations.raised THEN operations
        ELSE PathsFrom(paths, k + 1, components, operations.value,
                       operations.warnings)))

\* paths.items() needs a dict.
_parse_paths(paths, components, w) ==
    IF ~IsObj(paths) THEN Fail("AttributeError", "object has no attribute 'items'", w)
    ELSE PathsFrom(paths, 1, components, << >>, w)

APISpec(title, version, description, base_url, endpoints, servers, security_schemes) ==
    [title |-> title, version |-> version, description |-> description,
     base_url |-> base_url, endpoints |-> endpoints, servers |-> servers,
     security_schemes |-> security_schemes]

\* The servers list of the result ({"url": .., "description": ..} each).
Servers(spec) ==
    LET declared == At(spec, "servers", Arr(<< >>)).list
    IN [i \in DOMAIN declared |->
           [url |-> At(declared[i], "url", StrV("")).str,
            description |-> At(declared[i], "description", StrV("")).str]]

\* original_spec, which is the loaded document itself, is left out of the
\* result.  "securitySchemes" in components needs a container, and
\* info.get a dict.
_parse_spec(spec, w) ==
    LET info == At(spec, "info", EmptyObj)
        servers == Servers(spec)
        components == At(spec, "components", EmptyObj)
    IN IF ~IsObj(components)
          THEN Fail("TypeError", "argument of type 'NoneType' is not iterable", w)
       ELSE Bind(_parse_paths(At(spec, "paths", EmptyObj), components, w),
                 LAMBDA endpoints :
                    IF endpoints.raised THEN endpoints
                    ELSE IF ~IsObj(info)
                       THEN Fail("AttributeError", "object has no attribute 'get'",
                                 endpoints.warnings)
                    ELSE Done(APISpec(At(info, "title", StrV("Untitled API")).str,
                                      At(info, "version", StrV("1.0.0")).str,
                                      At(info, "description", StrV("")).str,
                                      IF Len(servers) > 0 THEN servers[1].url ELSE "",
                                      endpoints.value, servers,
                                      IF Has(components, "securitySchemes")
                                         THEN At(components, "securitySchemes", EmptyObj)
                                      ELSE EmptyObj),
                              endpoints.warnings))

\* parse(content, format): self.warnings is emptied first.
parse(content, format) ==
    Bind(Load(content, format),
         LAMBDA loaded :
            IF loaded.raised THEN Fail(loaded.exc, loaded.msg, << >>)
            ELSE IF ~IsObj(loaded.value)
               THEN Fail("OpenAPIParserError",
                         "API spec must be a valid object/dictionary", << >>)
            ELSE Bind(_validate_version(loaded.value),
                      LAMBDA version :
                         IF version.raised THEN Fail(version.exc, version.msg, << >>)
                         ELSE _parse_spec(loaded.value, << >>)))

(***************************************************************************)
(* The documents handed to parse.                                           *)
(***************************************************************************)
\* Most path items of a document the model draws.
MaxPaths == 2

Ref(ref) == Obj(<< Item("$ref", StrV(ref)) >>)
TypeSchema(t) == Obj(<< Item("type", StrV(t)) >>)
JsonContent(schema) ==
    Obj(<< Item("application/json", Obj(<< Item("schema", schema) >>)) >>)

Components ==
    Obj(<< Item("parameters",
                Obj(<< Item("Limit",
                            Obj(<< Item("name", StrV("limit")),
                                   Item("in", StrV("query")),
                                   Item("schema", TypeSchema("integer")) >>)) >>)),
           Item("schemas", Obj(<< Item("Pet", TypeSchema("object")) >>)) >>)

UsersPath ==
    Item("/users/{id}",
         Obj(<< Item("parameters",
                     Arr(<< Obj(<< Item("name", StrV("id")), Item("in", StrV("path")),
                                   Item("required", BoolV(TRUE)),
                                   Item("schema", TypeSchema("integer")) >>),
                            Ref("#/components/parameters/Limit"),
                            Ref("other.yaml#/Limit") >>)),
                Item("delete", Obj(<< Item("operationId", StrV("deleteUser")) >>)),
                Item("get",
                     Obj(<< Item("parameters",
                                 Arr(<< Obj(<< Item("name", StrV("id")),
                                               Item("in", StrV("query")) >>) >>)),
                            Item("responses",
                                 Obj(<< Item("200",
                                             Obj(<< Item("description", StrV("ok")),
                                                    Item("content",
                                                         JsonContent(Ref("#/components/schemas/Missing"))) >>)),
                                        Item("default",
                                             Ref("#/components/responses/Missing")) >>)) >>)),
                Item("head", Obj(<< Item("operationId", StrV("headUser")) >>)) >>))

OrdersPath ==
    Item("/orders",
         Obj(<< Item("post",
                     Obj(<< Item("operationId", StrV("")),
                            Item("requestBody",
                                 Obj(<< Item("required", BoolV(TRUE)),
                                        Item("content",
                                             JsonContent(Ref("#/components/schemas/Missing"))) >>)) >>)),
                Item("put",
                     Obj(<< Item("operationId", StrV("putOrder")),
                            Item("requestBody",
                                 Ref("#/components/requestBodies/Missing")) >>)),
                Item("options", Obj(<< Item("operationId", StrV("orderOptions")) >>)) >>))

RootPath == Item("/", Obj(<< Item("get", EmptyObj) >>))

UserOrdersPath ==
    Item("/users/{id}/orders",
         Obj(<< Item("parameters", Arr(<< Ref("#/components/parameters/Missing") >>)),
                Item("patch",
                     Obj(<< Item("parameters",
                                 Arr(<< Ref("#/components/parameters/Limit") >>)),
                            Item("requestBody",
                                 Obj(<< Item("content",
                                             JsonContent(Ref("#/components/schemas/Pet"))) >>)),
                            Item("responses",
                                 Obj(<< Item("404",
                                             Obj(<< Item("description",
                                                         StrV("none")) >>)) >>)) >>)) >>))

\* "get:" with nothing under it loads as None.
NullOperationPath == Item("/{id}", Obj(<< Item("get", None) >>))

PathEntries == {UsersPath, OrdersPath, RootPath, UserOrdersPath, NullOperationPath}

\* The paths objects: up to MaxPaths entries with different keys.
PathLists ==
    {ps \in UNION {[1..n -> PathEntries] : n \in 0..MaxPaths} :
        \A i, j \in DOMAIN ps : i # j => ps[i] # ps[j]}

Info == Obj(<< Item("title", StrV("Shop")), Item("version", StrV("1.2")) >>)

Doc(openapi, paths) ==
    Obj(<< Item("openapi", openapi), Item("info", Info), Item("paths", paths),
           Item("components", Components) >>)

Documents ==
    {Doc(StrV("3.0.3"), Obj(ps)) : ps \in PathLists}
    \cup {Doc(v, Obj(<< UsersPath >>)) :
            v \in {StrV(""), StrV("2.0"), StrV("3.1.0"), StrV("3.2.1"), FloatV("3.0")}}
    \cup { Obj(<< Item("info", Info) >>),           \* no openapi field
           Doc(StrV("3.0.3"), None),                \* "paths:" with nothing under it
           None, Arr(<< >>), StrV("openapi") }      \* no object at the top

Formats == {"yaml", "json"}

ParseInputs ==
    [content : {Content("yaml", d) : d \in Documents}, format : Formats]
    \cup [content : {Content("json", Doc(StrV("3.1.0"), Obj(<< RootPath >>))),
                     Content("neither", None)},
          format : Formats \cup {"YAML"}]

\* The parse calls of the model: the arguments and what parse makes of them.
ParseCalls ==
    {[input |-> input, result |-> parse(input.content, input.format)] :
        input \in ParseInputs}

\* analysis.get("issues", []) of the dict analyze_api_spec returns; "raises"
\* when the call raises.
Analyses == { [raises |-> TRUE], [raises |-> FALSE, issues |-> << >>],
              [raises |-> FALSE, issues |-> << "Missing description for GET /" >>] }

(***************************************************************************)
(* One OpenAPIParser, called directly and by upload_api_spec.               *)
(***************************************************************************)
ParserInit ==
    /\ AgentIdle
    /\ ExecutorIdle
    /\ ParserIdle
    /\ RestIdle
    /\ ai_service \in BOOLEAN

Outcome(r) == IF r.raised THEN Raise(r.exc, r.msg) ELSE Return(r.value)

\* self.parser.parse(content, format) with what it leaves in the parser.
Parsing(input, r) ==
    /\ document' = input
    /\ parsed' = Outcome(r)
    /\ parse_warnings' = r.warnings
    /\ repeat' = IF document # input THEN "none"
                 ELSE IF parsed = Outcome(r) THEN "same"
                 ELSE "differs"

\* APIAgentApp.set_api_key
set_api_key ==
    /\ ai_service' = TRUE
    /\ UNCHANGED << warnings, document, parsed, parse_warnings, repeat, upload >>
    /\ UNCHANGED << agent_vars, build_vars, rest_vars >>

\* parser.parse(content, format) called on its own.
ParseCall ==
    /\ \E call \in ParseCalls :
          /\ Parsing(call.input, call.result)
          /\ warnings' = call.result.warnings
    /\ UNCHANGED << upload, ai_service >>
    /\ UNCHANGED << agent_vars, build_vars, rest_vars >>

\* upload_api_spec is called and awaits session_manager.get_session.
UploadApiSpec ==
    /\ upload \in {"idle", "returned", "raised"}
    /\ upload' = "looking"
    /\ UNCHANGED << warnings, document, parsed, parse_warnings, repeat, ai_service >>
    /\ UNCHANGED << agent_vars, build_vars, rest_vars >>

\* No such session: ValueError.
SessionMissing ==
    /\ upload = "looking"
    /\ upload' = "raised"
    /\ UNCHANGED << warnings, document, parsed, parse_warnings, repeat, ai_service >>
    /\ UNCHANGED << agent_vars, build_vars, rest_vars >>

\* The session is there: parse, issues = get_warnings() (the list of the
\* parser itself), analyze_api_spec (which does not suspend) and
\* issues.extend, up to the await of update_session.
SessionFound ==
    /\ upload = "looking"
    /\ \E call \in ParseCalls, analysis \in Analyses :
          LET r == call.result
          IN /\ Parsing(call.input, r)
             /\ IF r.raised
                   THEN /\ upload' = "raised"
                        /\ warnings' = r.warnings
                ELSE IF ~ai_service
                   THEN /\ upload' = "updating"
                        /\ warnings' = r.warnings
                ELSE IF analysis.raises
                   THEN /\ upload' = "raised"
                        /\ warnings' = r.warnings
                ELSE /\ upload' = "updating"
                     /\ warnings' = r.warnings \o analysis.issues
    /\ UNCHANGED ai_service
    /\ UNCHANGED << agent_vars, build_vars, rest_vars >>

\* update_session is done and upload_api_spec returns the AnalysisResult.
SessionUpdated ==
    /\ upload = "updating"
    /\ upload' = "returned"
    /\ UNCHANGED << warnings, document, parsed, parse_warnings, repeat, ai_service >>
    /\ UNCHANGED << agent_vars, build_vars, rest_vars >>

\* OpenAPIParser.get_warnings
get_warnings == warnings

ParserNext ==
    \/ set_api_key
    \/ ParseCall
    \/ UploadApiSpec
    \/ SessionMissing
    \/ SessionFound
    \/ SessionUpdated

ParserSpec == ParserInit /\ [][ParserNext]_vars


(***************************************************************************)
(* Properties.                                                              *)
(***************************************************************************)
Mapping(i) == match.scenario.api_mappings[i]
Failed(api_results) == {i \in DOMAIN api_results : ~api_results[i].success}
Succeeded(api_results) == {i \in DOMAIN api_results : api_results[i].success}

\* C1: when execute_scenario has returned, the results list has exactly one
\* result per mapping of the scenario, in declaration order: result i carries
\* the label "METHOD path" of mapping i.  While it runs, the list holds the
\* results of the mappings before the one in flight.
C1_OneResultPerMapping ==
    /\ engine = "returned" => Len(results) = Len(match.scenario.api_mappings)
    /\ pc = "calling" => Len(results) = idx - 1
    /\ engine # "idle" =>
          \A i \in DOMAIN results :
              results[i].endpoint = Mapping(i).method \o " " \o Mapping(i).endpoint_path

C1_Witness ==
    /\ engine = "returned"
    /\ Len(results) = 2
    /\ results[1].endpoint = "GET /users/{id}"
    /\ results[2].endpoint = "POST /orders"
    /\ ~results[1].success
    /\ results[2].success

\* C2: no fault of one mapping's call leaves execute_scenario or stops the
\* loop: every mapping gets its call, a call that raised yields a result with
\* success = FALSE, data = None and an error text, and each result's success
\* flag is decided by its own call alone.
C2_FailureIsolated ==
    /\ pc = "raised" => engine # "running"
    /\ engine # "idle" => Len(calls) = Len(results)
    /\ \A i \in DOMAIN results :
          /\ results[i].success = ~calls[i].raised
          /\ calls[i].raised =>
                /\ IsNone(results[i].data)
                /\ ~IsNone(results[i].error)
          /\ ~calls[i].raised => results[i].data = calls[i].value
    /\ engine = "returned" =>
          \A i \in DOMAIN match.scenario.api_mappings :
              \E k \in DOMAIN trace : trace[k].idx = i

C2_Witness ==
    /\ engine = "returned"
    /\ Len(results) = 2
    /\ calls[1].raised /\ calls[1].exc = "ValueError"
    /\ ~results[1].success
    /\ results[2].success
    /\ \E k \in DOMAIN trace : trace[k] = Event("send", 2)

\* C3: the requests of one run are sent in mapping order, one at a time and
\* each at most once: a later send is for a later mapping, and the event that
\* follows a send is the completion of that same call.
C3_SequentialNoRetry ==
    /\ \A j, k \in DOMAIN trace :
          (j < k /\ trace[j].ev = "send" /\ trace[k].ev = "send")
              => trace[j].idx < trace[k].idx
    /\ \A j \in DOMAIN trace :
          trace[j].ev = "send" =>
              (j = Len(trace) \/ trace[j + 1] = Event("complete", trace[j].idx))
    /\ \A j \in DOMAIN trace :
          trace[j].ev = "complete" =>
              (j > 1 /\ trace[j - 1] = Event("send", trace[j].idx))
    /\ (inflight # NoRequest) <=>
          (Len(trace) > 0 /\ trace[Len(trace)] = Event("send", idx) /\ pc = "calling")

C3_Witness ==
    /\ trace = << Event("send", 1), Event("complete", 1),
                  Event("send", 2), Event("complete", 2) >>
    /\ calls[1].raised
    /\ calls[1].msg = "Request timeout after 30.0s"

\* C4: the engine is invoked only for a match with confidence >= 0.3 whose
\* scenario's required entity names all appear among the extracted entity
\* names, and then always; otherwise answer returns a canned text, no request
\* was sent, and api_calls_made and raw_api_responses are empty.
GatePasses(m) ==
    /\ IsMatch(m)
    /\ m.confidence >= 30
    /\ \A k \in DOMAIN m.scenario.required_entities :
          \E e \in DOMAIN m.extracted_entities :
              m.extracted_entities[e].name = m.scenario.required_entities[k]

CannedTexts ==
    {"Xin loi, toi khong hieu cau hoi cua ban. Vui long thu dien dat theo cach khac."}
    \cup {"Vui long cung cap them thong tin: " \o names : names \in {"id", "q", "id, q"}}

C4_EngineOnlyPastGate ==
    /\ engine # "idle" => GatePasses(match)
    /\ (pc = "done" /\ GatePasses(match)) => engine = "returned"
    /\ (pc = "done" /\ ~GatePasses(match)) =>
          /\ engine = "idle"
          /\ trace = << >>
          /\ inflight = NoRequest
          /\ "plain" \in DOMAIN response.answer
          /\ response.answer.plain \in CannedTexts
          /\ response.api_calls_made = << >>
          /\ response.raw_api_responses = << >>

C4_Witness ==
    /\ pc = "done"
    /\ IsMatch(match)
    /\ match.confidence = 100
    /\ match.scenario.required_entities = << "id", "q" >>
    /\ Len(match.extracted_entities) = 1
    /\ Len(match.scenario.api_mappings) = 2
    /\ response.answer = Plain("Vui long cung cap them thong tin: q")

\* C5: once the matcher has returned and the matched scenario has a response
\* template, answer never raises: it returns a text whatever the calls and
\* the templates did, and api_calls_made lists (endpoint, success) of every
\* result in order.
IsText(answer) == "plain" \in DOMAIN answer \/ "template" \in DOMAIN answer

C5_AlwaysTextAnswer ==
    /\ (pc = "raised" /\ IsMatch(match)) => ~HasTemplate(match.scenario)
    /\ (pc = "done" /\ engine = "returned" /\ HasTemplate(match.scenario)) =>
          /\ IsText(response.answer)
          /\ response.raw_api_responses = results
          /\ Len(response.api_calls_made) = Len(results)
          /\ \A i \in DOMAIN results :
                response.api_calls_made[i] =
                    [endpoint |-> results[i].endpoint, success |-> results[i].success]

C5_Witness ==
    /\ pc = "done"
    /\ engine = "returned"
    /\ HasTemplate(match.scenario)
    /\ match.scenario.response_template.template = "{{ 1/0 }}"
    /\ match.scenario.response_template.error_template = "{% bad"
    /\ Len(results) = 2
    /\ ~results[1].success
    /\ rendering.path = "main"
    /\ response.answer = Plain("Template error: unexpected end of template")

\* C6: when the result list is not empty and every result failed, the only
\* template rendered is the error template, with error bound to the failure
\* messages of all results joined by "; " in result order; the main template
\* is not handed to the template engine.
RECURSIVE ExpectedJoin(_)
ExpectedJoin(api_results) ==
    IF Len(api_results) = 1 THEN api_results[1].error.str
    ELSE ExpectedJoin(SubSeq(api_results, 1, Len(api_results) - 1))
         \o "; " \o api_results[Len(api_results)].error.str

C6_AllFailedRendersErrorTemplate ==
    (rendering # NoRendering /\ Len(results) > 0 /\ Succeeded(results) = {}) =>
        /\ rendering.path = "error"
        /\ Len(rendering.rendered.calls) = 1
        /\ rendering.rendered.calls[1].template =
              match.scenario.response_template.error_template
        /\ rendering.rendered.calls[1].data =
              [k \in {"error"} |-> StrV(ExpectedJoin(results))]
        /\ \A c \in DOMAIN rendering.rendered.calls :
              rendering.rendered.calls[c].template #
                  match.scenario.response_template.template

C6_Witness ==
    /\ rendering # NoRendering
    /\ Len(results) = 2
    /\ Succeeded(results) = {}
    /\ results[1].error # results[2].error
    /\ response.answer =
          Rendered("Error: {{ error }}",
                   [k \in {"error"} |->
                       StrV("Unexpected error: invalid literal for int() with base 10: 'A1'; API returned error 400: bad")])


(***************************************************************************)
(* The context of the main render.                                          *)
(***************************************************************************)
ResultKey(i) == "result_" \o ToString(i - 1)       \* i from 1; the key counts from 0
OwnKeys(api_results) ==
    {"data", "_results", "_success_count", "_error_count"}
    \cup {ResultKey(i) : i \in DOMAIN api_results}
Contributes(result) == result.success /\ Truthy(result.data)
FirstSuccessful(api_results) ==
    CHOOSE i \in Succeeded(api_results) : \A j \in Succeeded(api_results) : i <= j
MainRendered == rendering # NoRendering /\ rendering.path = "main"

\* The body is bound under data and, when it is a dict, each of its keys that
\* is not a key the context sets itself is bound to its value.
BoundAsMain(context, body) ==
    /\ "data" \in DOMAIN context
    /\ context["data"] = body
    /\ IsDict(body) =>
          \A k \in (DOMAIN body.dict) \ OwnKeys(results) :
              k \in DOMAIN context /\ context[k] = body.dict[k]

\* C7 as claimed: when the main template is rendered, the body of the
\* successful result with the lowest position, whatever that position is, is
\* bound under data and merged at the top level.
C7_Original_FirstSuccessfulIsMain ==
    (MainRendered /\ Succeeded(results) # {}) =>
        BoundAsMain(rendering.context, results[FirstSuccessful(results)].data)

\* C7: when the main template is rendered, the body of the result at position
\* 0 is bound under data and merged at the top level if that result succeeded
\* with a non-empty body; otherwise no data key is bound and nothing is
\* merged, also when a later result succeeded.
C7_PositionZeroIsMain ==
    MainRendered =>
        IF Contributes(results[1])
           THEN BoundAsMain(rendering.context, results[1].data)
           ELSE /\ "data" \notin DOMAIN rendering.context
                /\ DOMAIN rendering.context \subseteq OwnKeys(results)

C7_Witness ==
    /\ MainRendered
    /\ Len(results) = 2
    /\ ~results[1].success
    /\ results[2].success
    /\ results[2].data = JsonDict([k \in {"name"} |-> StrV("Laptop")])
    /\ DOMAIN rendering.context =
          {"result_1", "_results", "_success_count", "_error_count"}

C9_NoDataTemplateIsRendered ==
    (rendering # NoRendering /\ Succeeded(results) # {}
        /\ \A i \in DOMAIN results : ~Contributes(results[i])) =>
        /\ "template" \in DOMAIN rendering.rendered.text
        /\ rendering.rendered.text.template =
              match.scenario.response_template.no_data_template
        /\ \A c \in DOMAIN rendering.rendered.calls :
              rendering.rendered.calls[c].template #
                  match.scenario.response_template.template

\* C10 as claimed: whenever a result failed, either the error template is
\* rendered with the failure messages or the main template is rendered with
\* _error_count the number of failed results.
ErrorTemplateRendered ==
    /\ rendering.path = "error"
    /\ Len(rendering.rendered.calls) >= 1
    /\ rendering.rendered.calls[1] =
          [template |-> match.scenario.response_template.error_template,
           data |-> [k \in {"error"} |-> StrV(ExpectedJoin(results))]]

MainRenderedWithCounts ==
    /\ rendering.path = "main"
    /\ Len(rendering.rendered.calls) >= 1
    /\ rendering.rendered.calls[1].template =
          match.scenario.response_template.template
    /\ rendering.rendered.calls[1].data = rendering.context
    /\ rendering.context["_error_count"] = Count(Cardinality(Failed(results)))
    /\ rendering.context["_success_count"].count
          + rendering.context["_error_count"].count = Len(results)

C10_Original_FailureAccounted ==
    (rendering # NoRendering /\ Failed(results) # {}) =>
        (ErrorTemplateRendered \/ MainRenderedWithCounts)

\* C10: whenever a result failed, the error template is rendered with the
\* failure messages (every result failed), or the main template is rendered
\* with _error_count the number of failed results and _success_count +
\* _error_count the number of results (some result succeeded with a non-empty
\* body), or else the no-data text is returned as it is, without the failure
\* (results succeeded, all of them with empty bodies).
NoDataReturned ==
    /\ rendering.path = "no_data"
    /\ Succeeded(results) # {}
    /\ \A i \in DOMAIN results : ~Contributes(results[i])
    /\ rendering.rendered.calls = << >>
    /\ rendering.rendered.text =
          Plain(match.scenario.response_template.no_data_template)

C10_FailureAccountedUnlessNoData ==
    (rendering # NoRendering /\ Failed(results) # {}) =>
        /\ Succeeded(results) = {} => ErrorTemplateRendered
        /\ (\E i \in DOMAIN results : Contributes(results[i])) => MainRenderedWithCounts
        /\ (Succeeded(results) # {} /\ \A i \in DOMAIN results : ~Contributes(results[i]))
              => NoDataReturned

C10_Witness ==
    /\ rendering # NoRendering
    /\ Len(results) = 2
    /\ Failed(results) = {2}
    /\ rendering.path = "main"
    /\ rendering.context["_error_count"] = Count(1)
    /\ rendering.context["_success_count"] = Count(1)

(***************************************************************************)
(* render on its own: the two render calls of render_api_response.          *)
(***************************************************************************)
\* The description of a fault of template that render binds to error, and the
\* plain text it returns when it has no error template.
FaultDescription(template) ==
    CASE JinjaFault(template) = "TemplateSyntaxError" ->
            "Template syntax error: " \o JinjaMessage(template)
      [] JinjaFault(template) = "UndefinedError" ->
            "Missing data: " \o JinjaMessage(template)
      [] OTHER -> JinjaMessage(template)
FaultText(template) ==
    CASE JinjaFault(template) = "TemplateSyntaxError" ->
            "Template error: " \o JinjaMessage(template)
      [] JinjaFault(template) = "UndefinedError" ->
            "Missing data: " \o JinjaMessage(template)
      [] OTHER -> "Render error: " \o JinjaMessage(template)

ExpectedRender(template, data, error_template) ==
    IF JinjaFault(template) = "none" THEN Rendered(template, data)
    ELSE IF error_template = NoTemplate THEN Plain(FaultText(template))
    ELSE IF JinjaFault(error_template) = "none"
        THEN Rendered(error_template,
                      [k \in {"error"} |-> StrV(FaultDescription(template))])
    ELSE Plain(FaultText(error_template))

\* The error template render has when render_api_response calls it.
FallbackOf(r) ==
    IF r.path = "main" THEN match.scenario.response_template.error_template
    ELSE NoTemplate

\* C11: render never raises.  Whatever the template, the data and the error
\* template, a syntax error, a missing variable and any other fault of the
\* template engine end in returned text: the template rendered when it has no
\* fault; otherwise the error template rendered with error bound to the
\* description of the fault; and a fixed plain text when no error template is
\* given (or when the error template fails in turn).
C11_RenderNeverRaises ==
    (rendering # NoRendering /\ rendering.path # "no_data") =>
        /\ ~rendering.rendered.raised
        /\ rendering.rendered.text =
              ExpectedRender(rendering.rendered.calls[1].template,
                             rendering.rendered.calls[1].data,
                             FallbackOf(rendering))

C11_Witness ==
    /\ rendering # NoRendering
    /\ rendering.path = "main"
    /\ match.scenario.response_template.template = "{{ a.b.c }}"
    /\ match.scenario.response_template.error_template = "Error: {{ error }}"
    /\ ~rendering.rendered.raised
    /\ rendering.rendered.text =
          Rendered("Error: {{ error }}",
                   [k \in {"error"} |-> StrV("Missing data: 'a' is undefined")])

\* C12: the fallback chain of render is bounded.  One render call hands at
\* most two templates to the template engine: the template and, after a
\* fault, the error template, once.  When the error template fails as well
\* the result is a plain text and no further render is tried.
C12_BoundedFallback ==
    rendering # NoRendering =>
        LET c == rendering.rendered.calls
        IN /\ Len(c) <= 2
           /\ Len(c) = 2 =>
                 /\ rendering.path = "main"
                 /\ JinjaFault(c[1].template) # "none"
                 /\ c[2].template = match.scenario.response_template.error_template
           /\ (Len(c) >= 1 /\ JinjaFault(c[Len(c)].template) # "none") =>
                 /\ ~rendering.rendered.raised
                 /\ "plain" \in DOMAIN rendering.rendered.text

C12_Witness ==
    /\ rendering # NoRendering
    /\ rendering.path = "main"
    /\ match.scenario.response_template.template = "{% for %}"
    /\ match.scenario.response_template.error_template = "{% bad"
    /\ Len(rendering.rendered.calls) = 2
    /\ rendering.rendered.text = Plain("Template error: unexpected end of template")

(***************************************************************************)
(* The request of one call.                                                 *)
(***************************************************************************)
Least(S) == CHOOSE x \in S : \A y \in S : x <= y

\* The value a parameter mapping contributes: the entity value (default when
\* the entity is missing), transformed when a transform is declared.
Contributed(pm, entity_map, default) ==
    IF pm.transform # ""
        THEN _apply_transform(Get(entity_map, pm.entity_name, default), pm.transform)
    ELSE Return(Get(entity_map, pm.entity_name, default))

\* What a segment of the path has to become.
ExpectedSegment(seg, api_mapping, entity_map) ==
    IF "lit" \in DOMAIN seg THEN seg
    ELSE LET pms == api_mapping.parameter_mappings
             statics == api_mapping.static_params
             ks == {k \in DOMAIN pms : pms[k].api_parameter = seg.ph}
             js == {j \in DOMAIN statics : statics[j].param = seg.ph}
             first == Contributed(pms[Least(ks)], entity_map, StrV(""))
         IN IF ks # {}
               THEN IF first.raised THEN first ELSE Lit(Str(first.value))
            ELSE IF js # {} THEN Lit(Str(statics[Least(js)].value))
            ELSE seg

\* C19: every {name} placeholder of the path is replaced from the first
\* parameter mapping whose target is name (the entity value, transformed when
\* a transform is declared); a placeholder no mapping targets is replaced from
\* the static parameter called name; a placeholder with neither stays in the
\* path as it is.  The request is built unless a transform raises: a
\* placeholder left in the path is no error.
C19_PathPlaceholders ==
    prepared # NoCall =>
        LET api_mapping == api_call.api_mapping
            pms == api_mapping.parameter_mappings
            entity_map == EntityMap(api_call.entities)
            segs == Segments(api_mapping.endpoint_path)
        IN /\ prepared.raised =>
                 /\ prepared.exc \in {"ValueError", "TypeError"}
                 /\ \E k \in DOMAIN pms :
                       \/ Contributed(pms[k], entity_map, StrV("")).raised
                       \/ Contributed(pms[k], entity_map, None).raised
           /\ ~prepared.raised =>
                 /\ Len(prepared.value.url.path) = Len(segs)
                 /\ \A i \in DOMAIN segs :
                       prepared.value.url.path[i] =
                           ExpectedSegment(segs[i], api_mapping, entity_map)

C19_Witness ==
    /\ prepared # NoCall
    /\ api_call.api_mapping.endpoint_path = "/users/{id}/items/{sku}"
    /\ api_call.api_mapping.parameter_mappings = << PM("id", "id", "int") >>
    /\ api_call.api_mapping.static_params = << [param |-> "id", value |-> IntV("7")] >>
    /\ ~prepared.raised
    /\ prepared.value.url.path = << Lit("users"), Lit("42"), Lit("items"), Ph("sku") >>

\* C20: when no endpoint of the spec has the path and method of the mapping,
\* the request is still built and every parameter mapping whose target is no
\* placeholder of the path and whose entity value is not null is among the
\* query parameters, with its (transformed) value.
C20_UnresolvedEndpointSendsMappedAsQuery ==
    (/\ prepared # NoCall
     /\ \A e \in DOMAIN ApiSpec.endpoints :
           \/ ApiSpec.endpoints[e].path # api_call.api_mapping.endpoint_path
           \/ ApiSpec.endpoints[e].method # api_call.api_mapping.method
     /\ ~prepared.raised) =>
        LET pms == api_call.api_mapping.parameter_mappings
            entity_map == EntityMap(api_call.entities)
            segs == Segments(api_call.api_mapping.endpoint_path)
        IN \A k \in DOMAIN pms :
              (/\ ~HasPlaceholder(segs, pms[k].api_parameter)
               /\ ~IsNone(Get(entity_map, pms[k].entity_name, None))) =>
                    /\ pms[k].api_parameter \in DOMAIN prepared.value.params
                    /\ \E j \in DOMAIN pms :
                          /\ pms[j].api_parameter = pms[k].api_parameter
                          /\ ~Contributed(pms[j], entity_map, None).raised
                          /\ prepared.value.params[pms[k].api_parameter] =
                                Contributed(pms[j], entity_map, None).value

(***************************************************************************)
(* The parser: the source document against the result of parse.            *)
(***************************************************************************)
Top == document.content.top
Returned == parsed # NoCall /\ ~parsed.raised

\* The text is taken by no loader, or not by the one the format selects.
InvalidText ==
    \/ document.content.lang = "neither"
    \/ document.format \notin {"yaml", "YAML"} /\ document.content.lang # "json"

\* No version is declared, or one whose major.minor is another than 3.0, 3.1.
UnsupportedVersion ==
    \/ ~Has(Top, "openapi")
    \/ At(Top, "openapi", None) \in {StrV(""), StrV("2.0"), StrV("3.2.1")}

\* C13: parse returns a complete APISpec or fails with OpenAPIParserError: it
\* fails with that error when the text is no valid YAML/JSON, when the loaded
\* value is no object, and when the declared version is missing or not 3.0 /
\* 3.1; no exception of another class leaves parse.
C13_ParseErrorOrSpec ==
    parsed # NoCall =>
        /\ parsed.raised => parsed.exc = "OpenAPIParserError"
        /\ (InvalidText \/ ~IsObj(Top) \/ UnsupportedVersion) => parsed.raised
        /\ ~parsed.raised =>
              DOMAIN parsed.value = {"title", "version", "description", "base_url",
                                     "endpoints", "servers", "security_schemes"}

\* C14: whatever parse calls and uploads went before, get_warnings() is the
\* list of warnings the most recent parse call accumulated.
C14_WarningsOfLastParse == get_warnings = parse_warnings

\* The source of an endpoint of the result.
SourceItem(path) == At(At(Top, "paths", EmptyObj), path, None)
SourceOperation(endpoint) ==
    At(SourceItem(endpoint.path), MethodLower(endpoint.method), None)

IsRef(x) == IsObj(x) /\ Has(x, "$ref")
RefOf(x) == At(x, "$ref", None).str

\* The pointers that lead to something in Components.
Resolvable(ref) ==
    ref \in {"#/components/parameters/Limit", "#/components/schemas/Pet"}
Dangling(x) == IsRef(x) /\ ~Resolvable(RefOf(x))

WarningFor(ref) ==
    IF ref = "other.yaml#/Limit" THEN "External reference not supported: " \o ref
    ELSE "Could not resolve reference: " \o ref
Warned(text) == \E i \in DOMAIN parse_warnings : parse_warnings[i] = text

\* The parameter entries an endpoint is made of: path level, then operation.
ParameterEntries(endpoint) ==
    At(SourceItem(endpoint.path), "parameters", Arr(<< >>)).list
    \o At(SourceOperation(endpoint), "parameters", Arr(<< >>)).list

\* The name a parameter entry declares (through its reference, if it is one).
DeclaredName(x) == IF IsRef(x) THEN "limit" ELSE At(x, "name", StrV("")).str

JsonSchemaOf(x) == At(At(At(x, "content", EmptyObj), "application/json", EmptyObj),
                      "schema", EmptyObj)

\* Every operation under one of the five methods is an object, the version is
\* supported and the text loads: the document has no defect but references.
WellFormed ==
    /\ ~InvalidText
    /\ IsObj(Top)
    /\ ~UnsupportedVersion
    /\ IsStr(At(Top, "openapi", None))
    /\ IsObj(At(Top, "paths", EmptyObj))
    /\ \A i \in DOMAIN At(Top, "paths", EmptyObj).obj :
          \A m \in {"get", "post", "put", "patch", "delete"} :
             Has(At(Top, "paths", EmptyObj).obj[i].v, m) =>
                IsObj(At(At(Top, "paths", EmptyObj).obj[i].v, m, None))

PathLevel(endpoint) ==
    _parse_parameters(At(SourceItem(endpoint.path), "parameters", Arr(<< >>)).list,
                      At(Top, "components", EmptyObj), << >>).value
OperationLevel(endpoint) ==
    _parse_parameters(At(SourceOperation(endpoint), "parameters", Arr(<< >>)).list,
                      At(Top, "components", EmptyObj), << >>).value

\* C16: in the parameter list of every endpoint no two parameters have the
\* same name; each operation-level parameter is in the list as declared
\* (location, type, required); a path-level parameter is in the list as
\* declared exactly when no operation-level parameter has its name.
C16_OperationParameterWins ==
    Returned =>
        \A e \in DOMAIN parsed.value.endpoints :
            LET endpoint == parsed.value.endpoints[e]
                merged == endpoint.parameters
                path_level == PathLevel(endpoint)
                op_level == OperationLevel(endpoint)
                op_names == {op_level[i].name : i \in DOMAIN op_level}
            IN /\ \A i, j \in DOMAIN merged :
                     merged[i].name = merged[j].name => i = j
               /\ \A i \in DOMAIN op_level : \E j \in DOMAIN merged : merged[j] = op_level[i]
               /\ \A i \in DOMAIN path_level :
                     path_level[i].name \notin op_names =>
                        \E j \in DOMAIN merged : merged[j] = path_level[i]
               /\ \A j \in DOMAIN merged :
                     \/ \E i \in DOMAIN op_level : merged[j] = op_level[i]
                     \/ /\ merged[j].name \notin op_names
                        /\ \E i \in DOMAIN path_level : merged[j] = path_level[i]

C16_Witness ==
    /\ Returned
    /\ Len(parsed.value.endpoints) >= 2
    /\ parsed.value.endpoints[1].path = "/users/{id}"
    /\ parsed.value.endpoints[1].method = "GET"
    /\ parsed.value.endpoints[1].parameters =
          << APIParameter("id", "query", "string", FALSE),
             APIParameter("limit", "query", "integer", FALSE) >>
    /\ parsed.value.endpoints[2].method = "DELETE"
    /\ parsed.value.endpoints[2].parameters =
          << APIParameter("id", "path", "integer", TRUE),
             APIParameter("limit", "query", "integer", FALSE) >>

\* The path without its placeholders, slashes as single underscores.
ExpectedStem(path) ==
    CASE path = "/users/{id}" -> "users"
      [] path = "/users/{id}/orders" -> "users_orders"
      [] path = "/orders" -> "orders"
      [] OTHER -> ""
ExpectedId(method, path) ==
    IF ExpectedStem(path) = "" THEN MethodLower(method)
    ELSE MethodLower(method) \o "_" \o ExpectedStem(path)

\* C17: an operation without operationId gets the identifier made of the
\* lower-cased method and the path without placeholders, slashes turned into
\* underscores and runs of underscores collapsed; a warning names it; and a
\* parse call with the arguments of the one before ends as that one did.
C17_GeneratedOperationId ==
    /\ repeat # "differs"
    /\ Returned =>
        \A e \in DOMAIN parsed.value.endpoints :
            LET endpoint == parsed.value.endpoints[e]
            IN ~Bool(At(SourceOperation(endpoint), "operationId", StrV(""))) =>
                  /\ endpoint.operation_id = ExpectedId(endpoint.method, endpoint.path)
                  /\ Warned("Missing operationId for " \o endpoint.method \o " "
                               \o endpoint.path \o ", generated: "
                               \o ExpectedId(endpoint.method, endpoint.path))

C17_Witness ==
    /\ Returned
    /\ repeat = "same"
    /\ \E e \in DOMAIN parsed.value.endpoints :
          /\ parsed.value.endpoints[e].path = "/users/{id}/orders"
          /\ parsed.value.endpoints[e].operation_id = "patch_users_orders"
    /\ Warned("Missing operationId for PATCH /users/{id}/orders, generated: patch_users_orders")

\* The operations a document declares: under each path, in document order,
\* those of the given methods, in the order of methods.
RECURSIVE Declared(_, _, _, _)
Declared(paths, k, methods, m) ==
    IF k > Len(paths) THEN << >>
    ELSE IF m > Len(methods) THEN Declared(paths, k + 1, methods, 1)
    ELSE IF Has(paths[k].v, methods[m])
        THEN << << paths[k].k, MethodUpper(methods[m]) >> >>
             \o Declared(paths, k, methods, m + 1)
    ELSE Declared(paths, k, methods, m + 1)

\* The methods an OpenAPI path item can declare an operation for.
OpenAPIMethods == << "get", "put", "post", "delete", "options", "head", "patch", "trace" >>

\* The keys of the methods HTTPMethod has a member for, in its order.
SupportedKeys == [i \in DOMAIN HTTPMethod |-> MethodLower(HTTPMethod[i])]

Listed == [e \in DOMAIN parsed.value.endpoints |->
              << parsed.value.endpoints[e].path, parsed.value.endpoints[e].method >>]

Built == prepared # NoCall /\ ~prepared.raised

\* The endpoint of the spec with the path and method of the call, if any.
Declares(loc, name) ==
    \E e \in DOMAIN ApiSpec.endpoints :
        /\ ApiSpec.endpoints[e].path = api_call.api_mapping.endpoint_path
        /\ ApiSpec.endpoints[e].method = api_call.api_mapping.method
        /\ \E p \in DOMAIN ApiSpec.endpoints[e].parameters :
              ApiSpec.endpoints[e].parameters[p] = Param(name, loc)

\* The entity value of mapping k; absent entities count as null.
EntityOf(k) ==
    LET pm == api_call.api_mapping.parameter_mappings[k]
        named == {i \in DOMAIN api_call.entities :
                     api_call.entities[i].name = pm.entity_name}
    IN IF named = {} THEN None
       ELSE api_call.entities[CHOOSE i \in named : \A j \in named : j <= i].value

\* The mappings that overlay header name: their target is a declared header
\* parameter called name and their entity has a value.
Overlays(name) ==
    {k \in DOMAIN api_call.api_mapping.parameter_mappings :
        /\ api_call.api_mapping.parameter_mappings[k].api_parameter = name
        /\ Declares("header", name)
        /\ ~IsNone(EntityOf(k))}

\* The headers the configured authentication asks for, as name/value pairs.
Credential ==
    LET auth == api_call.auth_config
    IN IF DOMAIN auth = {} THEN {}
       ELSE IF auth.type = "bearer" THEN {<< "Authorization", "Bearer tok" >>}
       ELSE IF auth.type = "basic" THEN {<< "Authorization", "Basic dXNlcjpwdw==" >>}
       ELSE IF auth.key_location = "header" THEN {<< auth.key_name, auth.key_value >>}
       ELSE {}

\* C21: the request carries the configured credential: `Authorization: Bearer
\* <token>` for bearer, `Authorization: Basic base64(username:password)` for
\* basic, the named header for an API key with header location (in each case
\* unless a header parameter mapping overlays that header); an API key with
\* query location is in no header and in no query parameter, and the request
\* is the one built without any authentication.
C21_AuthenticationApplied ==
    Built =>
        LET auth == api_call.auth_config
            request == prepared.value
        IN /\ \A c \in Credential :
                 Overlays(c[1]) = {} =>
                    /\ c[1] \in DOMAIN request.headers
                    /\ request.headers[c[1]] = c[2]
           /\ (DOMAIN auth # {} /\ auth.type = "api_key" /\ auth.key_location = "query") =>
                 /\ auth.key_name \notin DOMAIN request.headers
                 /\ auth.key_name \notin DOMAIN request.params
                 /\ \A h \in DOMAIN request.headers : request.headers[h] # auth.key_value
                 /\ \A q \in DOMAIN request.params :
                       request.params[q] # StrV(auth.key_value)
                 /\ Overlays("Authorization") = {} =>
                       DOMAIN request.headers = {"Content-Type", "Accept"}

C21_Witness ==
    /\ Built
    /\ api_call.auth_config = [type |-> "api_key", key_name |-> "api_key",
                               key_value |-> "k1", key_location |-> "query"]
    /\ api_call.api_mapping.endpoint_path = "/users/{id}"
    /\ DOMAIN prepared.value.params = {"q"}
    /\ DOMAIN prepared.value.headers = {"Content-Type", "Accept"}

\* C26: the headers of the request are the fixed JSON headers, overwritten by
\* the authentication headers, overwritten by the header parameter mappings:
\* a header a mapping overlays has the text of the entity value of the last
\* such mapping, also when the authentication set that header; any other
\* header has its authentication value, or else its fixed value.
C26_HeaderOrder ==
    Built =>
        LET headers == prepared.value.headers
            names == {"Content-Type", "Accept"}
                     \cup {c[1] : c \in Credential}
                     \cup {n \in {"Authorization", "X-Trace"} : Overlays(n) # {}}
        IN /\ DOMAIN headers = names
           /\ \A n \in names :
                 IF Overlays(n) # {}
                    THEN headers[n] =
                            Str(EntityOf(CHOOSE k \in Overlays(n) :
                                            \A j \in Overlays(n) : j <= k))
                 ELSE IF \E c \in Credential : c[1] = n
                    THEN << n, headers[n] >> \in Credential
                 ELSE headers[n] = "application/json"

C26_Witness ==
    /\ Built
    /\ api_call.auth_config = [type |-> "bearer", token |-> "tok"]
    /\ api_call.api_mapping.endpoint_path = "/orders"
    /\ api_call.api_mapping.parameter_mappings = << PM("q", "Authorization", "") >>
    /\ api_call.entities = << Entity("id", StrV("42")), Entity("q", StrV("Hi")) >>
    /\ prepared.value.headers["Authorization"] = "Hi"

\* The mappings whose target is name.
Targets(name) ==
    {k \in DOMAIN api_call.api_mapping.parameter_mappings :
        api_call.api_mapping.parameter_mappings[k].api_parameter = name}

EntityNames == {api_call.entities[i].name : i \in DOMAIN api_call.entities}

MaxText == 3

\* Longest api_results list handed to render_api_response.
MaxResults == 2

TransformValues ==
    { None, StrV("Hi"), StrV(" Hi "), StrV("2024-01-15"), StrV("15 Jan"),
      StrV("10"), StrV("42"), IntV("7"), FloatV("7.0"), BoolV(TRUE) }

\* The vocabulary, and names outside it.
Transforms ==
    { "lowercase", "uppercase", "trim", "int", "float", "bool",
      DateTransform, ShortDateTransform, TimeTransform,
      "LOWERCASE", "reverse", "date", "" }

TransformCalls ==
    [fn : {"_apply_transform"}, value : TransformValues, transform : Transforms]

\* A text is the sequence of its characters.
Texts == UNION {[1..n -> {"a", "b"}] : n \in 0..MaxText}
Suffixes == { << >>, << "." >>, << ".", ".", "." >> }

TruncateCalls ==
    [fn : {"_truncate_text"}, value : Texts, length : 0..(MaxText + 1),
     suffix : Suffixes]

\* text[:k]
Slice(text, k) ==
    IF k >= 0 THEN SubSeq(text, 1, IF k < Len(text) THEN k ELSE Len(text))
    ELSE SubSeq(text, 1, IF Len(text) + k > 0 THEN Len(text) + k ELSE 0)

_truncate_text(value, length, suffix) ==
    IF Len(value) <= length THEN value
    ELSE Slice(value, length - Len(suffix)) \o suffix

\* The objects render_api_response is handed, by address: the list, the
\* result dicts in it and the bodies they refer to; Local is the dict the
\* function makes for itself ("data = {}").
ListAddress == [list |-> "api_results"]
ResultAddress(i) == [result |-> i]
BodyAddress(i) == [body |-> i]
Local == [local |-> "data"]
Reference(address) == [ref |-> address]

Addresses(api_results) ==
    {ListAddress, Local}
    \cup {ResultAddress(i) : i \in DOMAIN api_results}
    \cup {BodyAddress(i) : i \in DOMAIN api_results}

Objects(api_results) ==
    [a \in Addresses(api_results) |->
        IF a = ListAddress
            THEN JsonList([i \in DOMAIN api_results |-> Reference(ResultAddress(i))])
        ELSE IF a = Local THEN JsonDict(EmptyDict)
        ELSE IF "result" \in DOMAIN a
            THEN JsonDict([k \in {"endpoint", "success", "data", "error"} |->
                             IF k = "endpoint" THEN StrV(api_results[a.result].endpoint)
                             ELSE IF k = "success" THEN BoolV(api_results[a.result].success)
                             ELSE IF k = "data" THEN Reference(BodyAddress(a.result))
                             ELSE api_results[a.result].error])
        ELSE api_results[a.body].data]

\* object[key] = value, for the object at address
Store(objects, address, key, value) ==
    IF IsDict(objects[address])
        THEN [objects EXCEPT ![address] = JsonDict(Put(objects[address].dict, key, value))]
    ELSE objects

\* object.update(body): the keys of body in some order
RECURSIVE UpdateAt(_, _, _, _)
UpdateAt(objects, address, body, keys) ==
    IF keys = {} THEN objects
    ELSE LET k == CHOOSE x \in keys : TRUE
         IN UpdateAt(Store(objects, address, k, body.dict[k]), address, body,
                     keys \ {k})

\* data_dict with `data` bound to the body of the first result when that is a
\* dict.
data_dictAliasesFirstBody(api_results) ==
    IF Len(api_results) > 0 /\ IsDict(api_results[1].data) THEN BodyAddress(1)
    ELSE Local

\* data = {}: the name `data` is bound to a new dict.
data_dict(api_results) == Local

\* The loop "for i, result in enumerate(api_results)" on the objects.
RECURSIVE LoopOn(_, _, _)
LoopOn(objects, api_results, pos) ==
    IF pos > Len(api_results) THEN objects
    ELSE LET body == objects[BodyAddress(pos)]
         IN IF api_results[pos].success /\ Truthy(body) THEN
               LET merged == IF pos - 1 = 0 /\ IsDict(body)
                                THEN UpdateAt(objects, data_dict(api_results), body, DOMAIN body.dict)
                                ELSE objects
                   main == IF pos - 1 = 0
                              THEN Store(merged, data_dict(api_results), "data", Reference(BodyAddress(pos)))
                              ELSE merged
               IN LoopOn(Store(main, data_dict(api_results), "result_" \o ToString(pos - 1),
                               Reference(BodyAddress(pos))),
                         api_results, pos + 1)
            ELSE LoopOn(objects, api_results, pos + 1)

\* The objects as render_api_response leaves them.
ObjectsAfter(api_results) ==
    IF Len(Errors(api_results)) > 0 /\ CountSuccess(api_results) = 0
        THEN Objects(api_results)
    ELSE LET looped == LoopOn(Objects(api_results), api_results, 1)
         IN IF ~Truthy(looped[data_dict(api_results)]) THEN looped
            ELSE Store(Store(Store(looped, data_dict(api_results), "_results", Reference(ListAddress)),
                             data_dict(api_results), "_success_count", Count(CountSuccess(api_results))),
                       data_dict(api_results), "_error_count", Count(Len(Errors(api_results))))

\* The results execute_scenario can hand over.
CallResults ==
    { SuccessResult(UserMapping, b) : b \in JsonBodies \cup {None} }
    \cup { FailureResult(UserMapping, "Request failed: conn refused") }

RenderCalls ==
    [fn : {"render_api_response"},
     template : {"{{ name }}", "{% for %}"},
     api_results : UNION {[1..n -> CallResults] : n \in 0..MaxResults},
     error_template : {"Error: {{ error }}", "{% bad"},
     no_data_template : {NoDataTemplate}]

FunctionInit ==
    /\ AgentIdle
    /\ ExecutorIdle
    /\ ParserIdle
    /\ StoreIdle
    /\ ConcurrentIdle
    /\ ai_service = TRUE
    /\ fn_call \in TransformCalls \cup TruncateCalls \cup RenderCalls
    /\ fn_result = NoCall

ApplyTransform ==
    /\ fn_result = NoCall
    /\ fn_call.fn = "_apply_transform"
    /\ fn_result' = _apply_transform(fn_call.value, fn_call.transform)
    /\ UNCHANGED << fn_call, agent_vars, build_vars, parser_vars, session_vars,
                    concurrent_vars >>

TruncateText ==
    /\ fn_result = NoCall
    /\ fn_call.fn = "_truncate_text"
    /\ fn_result' = Return(_truncate_text(fn_call.value, fn_call.length, fn_call.suffix))
    /\ UNCHANGED << fn_call, agent_vars, build_vars, parser_vars, session_vars,
                    concurrent_vars >>

RenderApiResponse ==
    /\ fn_result = NoCall
    /\ fn_call.fn = "render_api_response"
    /\ fn_result' =
          [returned |-> render_api_response(fn_call.template, fn_call.api_results,
                                            fn_call.error_template,
                                            fn_call.no_data_template),
           objects |-> ObjectsAfter(fn_call.api_results)]
    /\ UNCHANGED << fn_call, agent_vars, build_vars, parser_vars, session_vars,
                    concurrent_vars >>

FunctionNext ==
    \/ ApplyTransform
    \/ TruncateText
    \/ RenderApiResponse

FunctionSpec == FunctionInit /\ [][FunctionNext]_vars

(***************************************************************************)
(* The helper functions: properties.                                        *)
(***************************************************************************)
Called(fn) == fn_call # NoCall /\ fn_call.fn = fn /\ fn_result # NoCall

Vocabulary == {"lowercase", "uppercase", "trim", "int", "float", "bool"}

\* The two patterns of a date_format transform of the model.
PatternsOf(transform) ==
    CASE transform = DateTransform -> << "%Y-%m-%d", "%d/%m/%Y" >>
      [] transform = TimeTransform -> << "%H", "%M" >>

\* The texts that parse against a pattern, and what they are reformatted to.
Reformatted(text, patterns) ==
    CASE patterns[1] = "%Y-%m-%d" /\ text = "2024-01-15" -> "15/01/2024"
      [] patterns[1] = "%H" /\ text \in {"10", "7", "1"} -> "00"
      [] OTHER -> "unparseable"

\* C24: a transform whose name is none of lowercase, uppercase, trim, int,
\* float, bool and no date_format with an input and an output pattern
\* returns the value itself; a date_format transform returns the reformatted
\* text when the text of the value parses against the input pattern and the
\* value itself, unchanged, when it does not.
C24_UnknownAndDateTransforms ==
    Called("_apply_transform") =>
        LET value == fn_call.value
            transform == fn_call.transform
        IN /\ transform \notin Vocabulary \cup {DateTransform, TimeTransform} =>
                 fn_result = Return(value)
           /\ transform \in {DateTransform, TimeTransform} =>
                 IF Reformatted(Str(value), PatternsOf(transform)) = "unparseable"
                    THEN fn_result = Return(value)
                    ELSE fn_result =
                            Return(StrV(Reformatted(Str(value), PatternsOf(transform))))

C24_Witness ==
    /\ Called("_apply_transform")
    /\ fn_call.transform = DateTransform
    /\ fn_call.value = IntV("7")
    /\ fn_result = Return(IntV("7"))

\* C25: the text truncate_text returns has at most `length` characters, and
\* it is the text handed in when that has at most `length` characters.
C25_TruncateIsHardCap ==
    Called("_truncate_text") =>
        /\ Len(fn_result.value) <= fn_call.length
        /\ Len(fn_call.value) <= fn_call.length => fn_result.value = fn_call.value

\* C23: whichever path render_api_response takes (error template, no-data
\* template, main template, fallback), the list it was handed, every result
\* dict in it and every body a result refers to are afterwards what they
\* were before: all it writes to is the dict it made itself.
C23_RenderOnlyReads ==
    Called("render_api_response") =>
        /\ DOMAIN fn_result.objects = Addresses(fn_call.api_results)
        /\ \A a \in Addresses(fn_call.api_results) \ {Local} :
              fn_result.objects[a] = Objects(fn_call.api_results)[a]

C23_Witness ==
    /\ Called("render_api_response")
    /\ fn_result.returned.path = "main"
    /\ Len(fn_result.returned.rendered.calls) = 2
    /\ Len(fn_call.api_results) = 2
    /\ IsDict(fn_call.api_results[1].data)
    /\ {"name", "data", "result_0", "result_1", "_results"}
          \subseteq DOMAIN fn_result.objects[Local].dict

(***************************************************************************)
(* The order of the endpoint list.                                          *)
(***************************************************************************)
\* The position of a path among the keys of the document's paths object.
PathIndex(path) ==
    LET paths == At(Top, "paths", EmptyObj).obj
    IN CHOOSE k \in DOMAIN paths : paths[k].k = path

\* The position of a method in GET, POST, PUT, PATCH, DELETE.
MethodRank(method) == CHOOSE r \in DOMAIN HTTPMethod : HTTPMethod[r] = method

\* The position of a key among the items of a path item, 0 when absent.
KeyIndex(path_item, key) ==
    IF Has(path_item, key)
        THEN CHOOSE i \in DOMAIN path_item.obj : path_item.obj[i].k = key
    ELSE 0

\* C30: no two endpoints of the list have the same path and method, and the
\* list goes by the order of the paths in the document and, under one path,
\* by the order GET, POST, PUT, PATCH, DELETE, whatever the order in which
\* the path item declares its methods.
C30_NoDuplicatesFixedOrder ==
    Returned =>
        /\ \A i, j \in DOMAIN Listed : Listed[i] = Listed[j] => i = j
        /\ \A i, j \in DOMAIN Listed :
              i < j =>
                 \/ PathIndex(Listed[i][1]) < PathIndex(Listed[j][1])
                 \/ /\ Listed[i][1] = Listed[j][1]
                    /\ MethodRank(Listed[i][2]) < MethodRank(Listed[j][2])

C30_Witness ==
    /\ Returned
    /\ At(Top, "paths", EmptyObj) = Obj(<< OrdersPath, UsersPath >>)
    /\ KeyIndex(UsersPath.v, "delete") > 0
    /\ KeyIndex(UsersPath.v, "delete") < KeyIndex(UsersPath.v, "get")
    /\ Len(Listed) = 4
    /\ Listed[3] = << "/users/{id}", "GET" >>
    /\ Listed[4] = << "/users/{id}", "DELETE" >>

(***************************************************************************)
(* APIAgentApp over one SessionManager and one AgentManager: the requests   *)
(* create_scenario, upload_api_spec and finalize_agent as coroutines.  A    *)
(* coroutine runs alone from one await to the next; at an await of the      *)
(* database the other coroutines can run.                                   *)
(***************************************************************************)
\* Most requests in progress at once.
MaxRequests == 2

\* class SessionStatus(str, Enum): member name -> value
SessionStatus ==
    [n \in {"CREATED", "API_UPLOADED", "API_REFINED", "SCENARIOS_DEFINED",
            "AGENT_CREATED"} |->
        CASE n = "CREATED" -> "created"
          [] n = "API_UPLOADED" -> "api_uploaded"
          [] n = "API_REFINED" -> "api_refined"
          [] n = "SCENARIOS_DEFINED" -> "scenarios_defined"
          [] n = "AGENT_CREATED" -> "agent_created"]

\* SessionStatus(value)
StatusOf(value) == CHOOSE n \in DOMAIN SessionStatus : SessionStatus[n] = value

\* json.dumps / model_dump_json of x, and json.loads of the text.
Json(x) == [json |-> x]
Loads(text) == text.json

\* The column values update_session binds for a Session.
Row(session) ==
    [status |-> SessionStatus[session.status],
     api_spec |-> IF IsNone(session.api_spec) THEN None ELSE Json(session.api_spec),
     original_spec_content |-> session.original_spec_content,
     scenarios |-> Json(session.scenarios),
     agent_config |-> Json(session.agent_config)]

_row_to_session(id, row) ==
    [id |-> id,
     status |-> StatusOf(row.status),
     api_spec |-> IF IsNone(row.api_spec) THEN None ELSE Loads(row.api_spec),
     original_spec_content |-> row.original_spec_content,
     scenarios |-> Loads(row.scenarios),
     agent_config |-> Loads(row.agent_config)]

\* SELECT * FROM sessions WHERE id = ?
get_session(table, session_id) ==
    IF session_id \in DOMAIN table THEN _row_to_session(session_id, table[session_id])
    ELSE None

\* update_session that keeps the stored scenarios the Session does not have.
update_sessionMerging(table, session) ==
    IF session.id \in DOMAIN table
        THEN LET stored == Loads(table[session.id].scenarios)
                 has(s) == \E i \in DOMAIN stored : stored[i] = s
             IN [table EXCEPT ![session.id] =
                    [Row(session) EXCEPT !.scenarios =
                        Json(stored \o SelectSeq(session.scenarios,
                                                 LAMBDA s : ~has(s)))]]
    ELSE table

\* UPDATE sessions SET status, api_spec, original_spec_content, scenarios,
\* agent_config WHERE id = ?   (updated_at and chat_history are left out)
update_session(table, session) ==
    IF session.id \in DOMAIN table
        THEN [table EXCEPT ![session.id] = Row(session)]
    ELSE table

\* str(uuid4()): an id no stored agent has.
NewAgentId(stored) == "agent-" \o ToString(Len(stored) + 1)

AgentConfigOf(session, name) ==
    [session_id |-> session.id, name |-> name,
     description |-> "Q&A Agent for " \o session.api_spec.title,
     api_spec |-> session.api_spec, scenarios |-> session.scenarios,
     auth_config |-> EmptyDict]

\* PreconditionFault without the check of the scenarios.
PreconditionFaultNoScenarios(session) ==
    IF IsNone(session) THEN "Session not found"
    ELSE IF IsNone(session.api_spec) THEN "No API spec uploaded."
    ELSE ""

\* The checks of finalize_agent on the session it read: the message of the
\* ValueError, "" when there is none.
PreconditionFault(session) ==
    IF IsNone(session) THEN "Session not found"
    ELSE IF IsNone(session.api_spec) THEN "No API spec uploaded."
    ELSE IF Len(session.scenarios) = 0 THEN "No scenarios defined."
    ELSE ""

SessionIds == {"s1", "s2"}
StoredSessionIds == {"s1"}

SpecOf(title) == [title |-> title]
ScenarioOf(name) == [name |-> name]

\* parser.parse(content, format): the spec, or OpenAPIParserError.
ParsedContent(content) ==
    IF content = "openapi: 3.0.3" THEN Return(SpecOf("Shop"))
    ELSE Raise("OpenAPIParserError", "Invalid YAML")

StoredRows ==
    { Row([status |-> "CREATED", api_spec |-> None, original_spec_content |-> "",
           scenarios |-> << >>, agent_config |-> EmptyDict]),
      Row([status |-> "API_UPLOADED", api_spec |-> SpecOf("Pets"),
           original_spec_content |-> "openapi: 3.0.0", scenarios |-> << >>,
           agent_config |-> EmptyDict]),
      Row([status |-> "SCENARIOS_DEFINED", api_spec |-> None,
           original_spec_content |-> "", scenarios |-> << ScenarioOf("first") >>,
           agent_config |-> EmptyDict]),
      Row([status |-> "SCENARIOS_DEFINED", api_spec |-> SpecOf("Pets"),
           original_spec_content |-> "openapi: 3.0.0",
           scenarios |-> << ScenarioOf("first") >>, agent_config |-> EmptyDict]) }

Requests ==
    [op : {"create_scenario"}, session_id : StoredSessionIds, arg : {"A", "B"}]
    \cup [op : {"create_scenario"}, session_id : SessionIds \ StoredSessionIds,
          arg : {"A"}]
    \cup [op : {"upload_api_spec"}, session_id : StoredSessionIds,
          arg : {"openapi: 3.0.3", "not a spec"}]
    \cup [op : {"finalize_agent"}, session_id : SessionIds, arg : {"API Agent"}]

\* A coroutine that has not run yet.
Handler(request) ==
    [op |-> request.op, session_id |-> request.session_id, arg |-> request.arg,
     at |-> "start", session |-> None, agent_id |-> "", result |-> NoCall]

SessionInit ==
    /\ AgentIdle
    /\ ExecutorIdle
    /\ ParserIdle
    /\ FunctionIdle
    /\ ConcurrentIdle
    /\ ai_service \in BOOLEAN
    /\ sessions \in [StoredSessionIds -> StoredRows]
    /\ agents = << >>
    /\ registry = {}
    /\ handlers \in UNION {[1..n -> {Handler(r) : r \in Requests}] : n \in 0..MaxRequests}

Ended(h, how) == [h EXCEPT !.at = "ended", !.result = how]

\* create_scenario up to "await update_session".
CreateScenario(h) ==
    /\ handlers[h].op = "create_scenario"
    /\ handlers[h].at = "start"
    /\ LET session == get_session(sessions, handlers[h].session_id)
       IN handlers' =
            [handlers EXCEPT ![h] =
                IF IsNone(session)
                    THEN Ended(@, Raise("ValueError", "Session not found: " \o @.session_id))
                ELSE [@ EXCEPT !.at = "update_session",
                               !.session =
                                   [session EXCEPT
                                       !.scenarios = Append(@, ScenarioOf(handlers[h].arg)),
                                       !.status = "SCENARIOS_DEFINED"],
                               !.result = Return(ScenarioOf(handlers[h].arg))]]
    /\ UNCHANGED << sessions, agents, registry >>

\* session.api_spec = api_spec ... up to "await update_session".
Uploaded(h, session, api_spec) ==
    [h EXCEPT !.at = "update_session",
              !.session = [session EXCEPT !.api_spec = api_spec,
                                          !.original_spec_content = h.arg,
                                          !.status = "API_UPLOADED"],
              !.result = Return(api_spec)]

\* upload_api_spec up to "await analyze_api_spec", or to "await
\* update_session" when there is no AI service.
UploadToSession(h) ==
    /\ handlers[h].op = "upload_api_spec"
    /\ handlers[h].at = "start"
    /\ LET session == get_session(sessions, handlers[h].session_id)
           api_spec == ParsedContent(handlers[h].arg)
       IN handlers' =
            [handlers EXCEPT ![h] =
                IF IsNone(session)
                    THEN Ended(@, Raise("ValueError", "Session not found: " \o @.session_id))
                ELSE IF api_spec.raised
                    THEN Ended(@, Raise("ValueError",
                                        "Failed to parse API spec: " \o api_spec.msg))
                ELSE IF ai_service
                    THEN [@ EXCEPT !.at = "analyze_api_spec", !.session = session]
                ELSE Uploaded(@, session, api_spec.value)]
    /\ UNCHANGED << sessions, agents, registry >>

\* analyze_api_spec returns, or raises out of upload_api_spec.
AnalyzeForSession(h) ==
    /\ handlers[h].at = "analyze_api_spec"
    /\ \E raises \in BOOLEAN :
          handlers' =
            [handlers EXCEPT ![h] =
                IF raises THEN Ended(@, Raise("RuntimeError", "analysis failed"))
                ELSE Uploaded(@, @.session, ParsedContent(@.arg).value)]
    /\ UNCHANGED << sessions, agents, registry >>

\* finalize_agent when ai_service or agent_manager is None.
FinalizeUnconfigured(h) ==
    /\ handlers[h].op = "finalize_agent"
    /\ handlers[h].at = "start"
    /\ ~ai_service
    /\ handlers' =
          [handlers EXCEPT ![h] =
              Ended(@, Raise("ValueError",
                             "AI service not configured. Please set OPENAI_API_KEY."))]
    /\ UNCHANGED << sessions, agents, registry >>

\* finalize_agent up to "await save_agent".
FinalizeAgent(h) ==
    /\ handlers[h].op = "finalize_agent"
    /\ handlers[h].at = "start"
    /\ ai_service
    /\ LET session == get_session(sessions, handlers[h].session_id)
       IN handlers' =
            [handlers EXCEPT ![h] =
                IF PreconditionFault(session) # ""
                    THEN Ended(@, Raise("ValueError", PreconditionFault(session)))
                ELSE [@ EXCEPT !.at = "save_agent", !.session = session]]
    /\ UNCHANGED << sessions, agents, registry >>

\* save_agent: INSERT INTO agents.
SaveAgent(h) ==
    /\ handlers[h].at = "save_agent"
    /\ agents' = Append(agents,
                        [id |-> NewAgentId(agents),
                         session_id |-> handlers[h].session_id,
                         name |-> handlers[h].arg,
                         config |-> Json(AgentConfigOf(handlers[h].session,
                                                       handlers[h].arg))])
    /\ handlers' = [handlers EXCEPT ![h] = [@ EXCEPT !.at = "create_agent",
                                                     !.agent_id = NewAgentId(agents)]]
    /\ UNCHANGED << sessions, registry >>

\* agent_manager.create_agent(...) up to "await update_session".
CreateAgent(h) ==
    /\ handlers[h].at = "create_agent"
    /\ registry' = registry \cup {handlers[h].agent_id}
    /\ handlers' =
          [handlers EXCEPT ![h] =
              [@ EXCEPT !.at = "update_session",
                        !.session = [@ EXCEPT !.status = "AGENT_CREATED",
                                              !.agent_config =
                                                  [k \in {"agent_id", "name"} |->
                                                      IF k = "agent_id"
                                                          THEN handlers[h].agent_id
                                                      ELSE handlers[h].arg]],
                        !.result = Return(handlers[h].agent_id)]]
    /\ UNCHANGED << sessions, agents >>

\* update_session: the UPDATE, after which the request returns.
UpdateSession(h) ==
    /\ handlers[h].at = "update_session"
    /\ sessions' = update_session(sessions, handlers[h].session)
    /\ handlers' = [handlers EXCEPT ![h] = [@ EXCEPT !.at = "ended"]]
    /\ UNCHANGED << agents, registry >>

SessionStep(h) ==
    \/ CreateScenario(h)
    \/ UploadToSession(h)
    \/ AnalyzeForSession(h)
    \/ FinalizeUnconfigured(h)
    \/ FinalizeAgent(h)
    \/ SaveAgent(h)
    \/ CreateAgent(h)
    \/ UpdateSession(h)

SessionNext ==
    /\ \E h \in DOMAIN handlers : SessionStep(h)
    /\ UNCHANGED << agent_vars, build_vars, parser_vars, function_vars,
                    concurrent_vars >>

SessionSpec == SessionInit /\ [][SessionNext]_vars

(***************************************************************************)
(* Sessions and agents: properties.                                         *)
(***************************************************************************)
\* The requests that have written the row of session s and returned.
Writers(s) ==
    {h \in DOMAIN handlers :
        /\ handlers[h].session_id = s
        /\ handlers[h].at = "ended"
        /\ ~handlers[h].result.raised}

HasScenario(row, name) ==
    \E i \in DOMAIN Loads(row.scenarios) : Loads(row.scenarios)[i] = ScenarioOf(name)

\* C28: a session row is written as a whole from the Session object a
\* request read at its start: once a request on the session has returned,
\* the stored row is the row of the Session of one of the returned requests,
\* with nothing of what the others wrote that this one had not read.  So when
\* two requests read before either writes, the change of the one that writes
\* first is not in the stored row.
C28_RowIsOneWritersSnapshot ==
    \A s \in DOMAIN sessions :
        Writers(s) # {} =>
            \E h \in Writers(s) : sessions[s] = Row(handlers[h].session)

C28_Witness ==
    /\ Len(handlers) = 2
    /\ handlers[1].op = "create_scenario" /\ handlers[1].arg = "A"
    /\ handlers[2].op = "create_scenario" /\ handlers[2].arg = "B"
    /\ Writers("s1") = {1, 2}
    /\ ~HasScenario(Row(handlers[1].session), "B")
    /\ ~HasScenario(Row(handlers[2].session), "A")
    /\ HasScenario(sessions["s1"], "B")
    /\ ~HasScenario(sessions["s1"], "A")

\* The stored and the registered agents are those of sessions that exist and
\* had an API spec and a scenario.
AgentsOfCompleteSessions ==
    /\ \A a \in DOMAIN agents :
          /\ agents[a].session_id \in DOMAIN sessions
          /\ ~IsNone(Loads(agents[a].config).api_spec)
          /\ Len(Loads(agents[a].config).scenarios) > 0
    /\ registry \subseteq {agents[a].id : a \in DOMAIN agents}

\* One step of a finalize_agent request h.
FinalizeStep(h) ==
    LET before == handlers[h]
        after == handlers'[h]
        read == get_session(sessions, before.session_id)
        raises == after.at = "ended" /\ after.result.raised
    IN /\ (before.at = "start" /\ after.at # "start") =>
             /\ raises <=> (~ai_service \/ IsNone(read) \/ IsNone(read.api_spec)
                              \/ Len(read.scenarios) = 0)
             /\ raises => UNCHANGED << sessions, agents, registry >>
       /\ (before.at # "start" /\ before.at # "ended") => ~raises
       /\ (before.at = "update_session" /\ after.at = "ended") =>
             /\ sessions'[before.session_id].status = SessionStatus["AGENT_CREATED"]
             /\ Loads(sessions'[before.session_id].agent_config)["agent_id"]
                   = after.result.value
             /\ after.result.value \in registry
             /\ \E a \in DOMAIN agents :
                   /\ agents[a].id = after.result.value
                   /\ agents[a].session_id = before.session_id

\* C29: finalize_agent stores and registers an agent only for a session that
\* exists and has an API spec and at least one scenario; when the AI service
\* is missing or the session it reads is missing, has no API spec or has no
\* scenario it raises in the step in which it read the session, with the
\* sessions, the stored agents and the registered agents as they were; once
\* past the checks it does not raise, and the step that ends it leaves the
\* session's row with status agent_created and, as agent_config, the id of
\* the agent it stored and registered.
C29_FinalizeAllOrNothing ==
    [][ /\ AgentsOfCompleteSessions'
        /\ \A h \in DOMAIN handlers :
              handlers[h].op = "finalize_agent" => FinalizeStep(h) ]_vars

C29_Witness ==
    /\ Len(handlers) = 2
    /\ handlers[1].op = "finalize_agent" /\ handlers[1].session_id = "s1"
    /\ handlers[1].at = "ended" /\ ~handlers[1].result.raised
    /\ handlers[2].op = "finalize_agent" /\ handlers[2].session_id = "s2"
    /\ handlers[2].at = "ended" /\ handlers[2].result.raised
    /\ sessions["s1"].status = "agent_created"
    /\ Loads(sessions["s1"].agent_config)["agent_id"] = "agent-1"
    /\ registry = {"agent-1"}
    /\ Len(agents) = 1

(***************************************************************************)
(* One QAAgent answering several questions at once: each answer() is a      *)
(* coroutine that suspends at the matcher and at every HTTP request.  The   *)
(* agent's config, executor and renderer are the same objects for all.      *)
(***************************************************************************)
\* QAAgent.__init__: what every request of the agent shares.
SharedConfig ==
    [api_spec |-> ApiSpec,
     scenarios |-> << "lookup", "order" >>,
     auth_config |-> AuthConfig,
     timeout |-> TimeoutText,
     filters |-> {"format_number", "format_currency", "format_date",
                  "truncate_text", "json_pretty"}]

\* What the matcher returns for the questions of the model.
TaskMatches ==
    [scenario : { [name |-> "lookup", api_mappings |-> << UserMapping, OrderMapping >>],
                  [name |-> "order", api_mappings |-> << OrderMapping >>] },
     extracted_entities : { << Entity("id", StrV("42")), Entity("q", StrV("Hi")) >>,
                            << Entity("id", StrV("A1")) >> }]

\* What the HTTP client does with the requests of the model.
TaskOutcomes ==
    { [kind |-> "response", status |-> 200, is_json |-> TRUE,
       body |-> JsonDict([k \in {"name"} |-> StrV("Laptop")]), text |-> ""],
      [kind |-> "response", status |-> 400, is_json |-> TRUE, body |-> None,
       text |-> "bad"] }

\* An answer() that awaits match_scenario.
Task(matched) ==
    [scenario |-> matched.scenario, entities |-> matched.extracted_entities,
     at |-> "match_scenario", idx |-> 0, results |-> << >>, calls |-> << >>,
     order |-> << >>, returned |-> NoCall]

ConcurrentInit ==
    /\ AgentIdle
    /\ ExecutorIdle
    /\ ParserIdle
    /\ FunctionIdle
    /\ StoreIdle
    /\ ai_service = TRUE
    /\ config = SharedConfig
    /\ tasks \in UNION {[1..n -> {Task(m) : m \in TaskMatches}] : n \in 0..MaxRequests}

\* ResultsOwner with one list kept on the executor for all requests.
ResultsOwnerShared(t) == 1

\* results = []: the list is made by the call of execute_scenario of request t.
ResultsOwner(t) == t

\* The number of HTTP calls made so far by all requests.
RECURSIVE CallsMade(_)
CallsMade(t) == IF t = 0 THEN 0 ELSE Len(tasks[t].calls) + CallsMade(t - 1)

\* match_scenario returns; execute_scenario starts: results = [].
ExecuteScenario(t) ==
    /\ tasks[t].at = "match_scenario"
    /\ tasks' = [tasks EXCEPT ![ResultsOwner(t)].results = << >>,
                              ![t].at = "_execute_api_call",
                              ![t].idx = 1]
    /\ UNCHANGED config

\* One turn of the loop: _execute_api_call returns or raises and the result
\* is appended.
ExecuteCall(t) ==
    /\ tasks[t].at = "_execute_api_call"
    /\ tasks[t].idx <= Len(tasks[t].scenario.api_mappings)
    /\ \E o \in TaskOutcomes :
          LET api_mapping == tasks[t].scenario.api_mappings[tasks[t].idx]
              built == BuildRequest(config.auth_config, api_mapping,
                                    EntityMap(tasks[t].entities))
              call == IF built.raised THEN built ELSE CallResult(o)
          IN tasks' = [tasks EXCEPT
                          ![ResultsOwner(t)].results = Append(@, ResultOf(api_mapping, call)),
                          ![t].calls = Append(@, call),
                          ![t].order = Append(@, CallsMade(Len(tasks)) + 1),
                          ![t].idx = @ + 1]
    /\ UNCHANGED config

\* return results
ExecuteReturns(t) ==
    /\ tasks[t].at = "_execute_api_call"
    /\ tasks[t].idx > Len(tasks[t].scenario.api_mappings)
    /\ tasks' = [tasks EXCEPT ![t].at = "returned",
                              ![t].returned = tasks[ResultsOwner(t)].results]
    /\ UNCHANGED config

ConcurrentNext ==
    /\ \E t \in DOMAIN tasks :
          \/ ExecuteScenario(t)
          \/ ExecuteCall(t)
          \/ ExecuteReturns(t)
    /\ UNCHANGED << agent_vars, build_vars, parser_vars, function_vars, session_vars >>

ConcurrentSpec == ConcurrentInit /\ [][ConcurrentNext]_vars

\* C22: whatever the interleaving of the requests of one agent, the list
\* execute_scenario returns to a request has one result for each mapping of
\* that request's scenario, in their order, made from that request's own
\* calls; and the config, executor and renderer state the requests share is
\* what the constructor set.
C22_RequestsDoNotInterfere ==
    /\ config = SharedConfig
    /\ \A t \in DOMAIN tasks :
          tasks[t].at = "returned" =>
             /\ Len(tasks[t].returned) = Len(tasks[t].scenario.api_mappings)
             /\ \A i \in DOMAIN tasks[t].returned :
                   tasks[t].returned[i] =
                      ResultOf(tasks[t].scenario.api_mappings[i], tasks[t].calls[i])

C22_Witness ==
    /\ Len(tasks) = 2
    /\ tasks[1].at = "returned" /\ tasks[2].at = "returned"
    /\ tasks[1].order = << 1, 3 >>
    /\ tasks[2].order = << 2 >>
    /\ tasks[1].returned[1].endpoint = "GET /users/{id}"
    /\ tasks[1].returned[2].success
    /\ tasks[2].returned = << FailureResult(OrderMapping, "API returned error 400: bad") >>

====
